---- MODULE Spec2Model ----
(***************************************************************************)
(* Model of the statement-construction and execution engine of             *)
(* postgres_mcp.database_operations: the builders turn typed requests into *)
(* SQL text plus a positional parameter list, hand them to the injected    *)
(* driver and wrap the outcome into a result object.                       *)
(*                                                                         *)
(* SQL text is a sequence of pieces.  Every piece remembers where its      *)
(* characters come from:                                                   *)
(*   kw   text written literally in the source                             *)
(*   id   an identifier as rendered by the builder (its characters)        *)
(*   ph   a positional placeholder                                         *)
(*   val  a caller-supplied data value formatted into the text             *)
(*   raw  caller-supplied SQL text copied into the statement unchanged     *)
(***************************************************************************)
EXTENDS Integers, Sequences, FiniteSets, TLC

(***************************************************************************)
(* Bounds                                                                  *)
(***************************************************************************)
MaxBatch == 2
MaxRows == 2
MaxConds == 2
MaxColumns == 2
MaxCalls == 2
MaxShutdowns == 3

(***************************************************************************)
(* Python values                                                           *)
(***************************************************************************)
None == [t |-> "none", n |-> 0, items |-> <<>>]
IntV(i) == [t |-> "int", n |-> i, items |-> <<>>]
StrV(s) == [t |-> "str", n |-> 0, items |-> <<s>>]
FloatV(i) == [t |-> "float", n |-> i, items |-> <<>>]
ListV(xs) == [t |-> "list", n |-> 0, items |-> xs]
BoolV(b) == [t |-> "bool", n |-> IF b THEN 1 ELSE 0, items |-> <<>>]

\* json.dumps(value): the textual JSON form of a list or dict
json_dumps(v) == [t |-> "json", n |-> v.n, items |-> v.items]

\* "[" + ",".join(map(str, value)) + "]": the bracketed vector literal
vector_literal(v) == [t |-> "vectext", n |-> v.n, items |-> v.items]

isinstance_list(v) == v.t = "list"

\* Optional[int] / Optional[list]: the empty sequence is None
Nothing == <<>>
Some(x) == <<x>>

(***************************************************************************)
(* SQL text                                                                *)
(***************************************************************************)
DQ == "\""

Kw(s) == [k |-> "kw", v |-> <<s>>, d |-> None]
Ph == [k |-> "ph", v |-> <<"%s">>, d |-> None]
ValText(x) == [k |-> "val", v |-> <<>>, d |-> x]
Raw(s) == [k |-> "raw", v |-> <<s>>, d |-> None]
\* a caller-supplied setting (dimension, default, index option) formatted into the text
RawValue(x) == [k |-> "raw", v |-> <<>>, d |-> x]

\* f'"{name}"': the name between two double quotes, nothing escaped
QuoteIdent(name) == [k |-> "id", v |-> <<DQ>> \o name \o <<DQ>>, d |-> None]

RECURSIVE Doubled(_)
Doubled(name) ==
    IF name = <<>> THEN <<>>
    ELSE (IF Head(name) = DQ THEN <<DQ, DQ>> ELSE <<Head(name)>>) \o Doubled(Tail(name))

\* psycopg.sql.Identifier: the name between double quotes, embedded quotes doubled
Identifier(name) == [k |-> "id", v |-> <<DQ>> \o Doubled(name) \o <<DQ>>, d |-> None]

RECURSIVE Join(_, _)
\* sep.join(parts), every part being a sequence of pieces
Join(parts, sep) ==
    IF parts = <<>> THEN <<>>
    ELSE IF Len(parts) = 1 THEN parts[1]
    ELSE parts[1] \o sep \o Join(Tail(parts), sep)

Repeat(x, n) == [i \in 1..n |-> x]

HasKw(sql, s) == \E i \in 1..Len(sql) : sql[i] = Kw(s)

(***************************************************************************)
(* Python dict with insertion order: a sequence of key/value pairs         *)
(***************************************************************************)
Item(key, val) == [key |-> key, val |-> val]
keys(row) == [i \in 1..Len(row) |-> row[i].key]
HasKey(row, col) == \E i \in 1..Len(row) : row[i].key = col
\* row.get(col): None for a missing key
get(row, col) ==
    IF HasKey(row, col)
    THEN row[CHOOSE i \in 1..Len(row) : row[i].key = col].val
    ELSE None

RECURSIVE update(_, _)
\* d.update(e): a present key keeps its place and takes the new value, a new
\* key is appended
update(d, e) ==
    IF e = <<>> THEN d
    ELSE LET it == Head(e)
             d1 == IF HasKey(d, it.key)
                   THEN [i \in 1..Len(d) |-> IF d[i].key = it.key THEN it ELSE d[i]]
                   ELSE Append(d, it)
         IN  update(d1, Tail(e))

(***************************************************************************)
(* Exceptions and results                                                  *)
(***************************************************************************)
NoError == <<>>
\* an exception is the sequence of the parts of str(e)
Raise(m) == <<m>>

OperationResult(ok, msg, affected, returned) ==
    [kind |-> "OperationResult", success |-> ok, message |-> msg,
     affected_rows |-> affected, returned_data |-> returned]

QueryResult(ok, msg, rows) ==
    [kind |-> "QueryResult", success |-> ok, message |-> msg,
     affected_rows |-> Nothing, returned_data |-> rows]

NoResult ==
    [kind |-> "none", success |-> FALSE, message |-> <<>>,
     affected_rows |-> Nothing, returned_data |-> <<>>]

Statement(sql, params) == [sql |-> sql, params |-> params]

Built(err, sql, params) == [err |-> err, sql |-> sql, params |-> params]

(***************************************************************************)
(* str.upper() on the tokens the model uses                                *)
(***************************************************************************)
upper(s) ==
    CASE s = "in" -> "IN"
      [] s = "is null" -> "IS NULL"
      [] s = "and" -> "AND"
      [] s = "or" -> "OR"
      [] s = "asc" -> "ASC"
      [] s = "desc" -> "DESC"
      [] s = "hnsw" -> "HNSW"
      [] OTHER -> s

lower(s) ==
    CASE s = "HNSW" -> "hnsw"
      [] s = "IVFFLAT" -> "ivfflat"
      [] OTHER -> s

(***************************************************************************)
(* Predicate compiler                                                      *)
(***************************************************************************)
QueryCondition(column, operator, value, logical_operator) ==
    [column |-> column, operator |-> operator, value |-> value,
     logical_operator |-> logical_operator]

IsNullCheck(c) == upper(c.operator) \in {"IS NULL", "IS NOT NULL"}
IsInCheck(c) == upper(c.operator) \in {"IN", "NOT IN"}
\* the column of a condition: Identifier(column) in the Composed builder,
\* f'"{column}"' in the string builder
Column(name, composed) == IF composed THEN Identifier(name) ELSE QuoteIdent(name)

\* ConditionParams with params.append(condition.value) for an IN list
ConditionParamsAppendsList(c) ==
    IF IsNullCheck(c) THEN <<>> ELSE <<c.value>>

\* what one condition adds to params: nothing for a NULL check,
\* params.extend(condition.value) for IN / NOT IN, params.append(condition.value) otherwise
ConditionParams(c) ==
    IF IsNullCheck(c) THEN <<>>
    ELSE IF IsInCheck(c) THEN c.value.items
    ELSE <<c.value>>

\* ConditionClause without the isinstance test: a scalar is sent as a one-element list
ConditionClauseUnchecked(c, composed) ==
    IF IsNullCheck(c)
    THEN Built(NoError, <<Column(c.column, composed), Kw(" "), Raw(upper(c.operator))>>, <<>>)
    ELSE IF IsInCheck(c)
    THEN LET items == IF isinstance_list(c.value) THEN c.value.items ELSE <<c.value>>
         IN  Built(NoError,
                   <<Column(c.column, composed), Kw(" "), Raw(upper(c.operator)), Kw(" (")>>
                     \o Join(Repeat(<<Ph>>, Len(items)), <<Kw(", ")>>)
                     \o <<Kw(")")>>,
                   items)
    ELSE Built(NoError, <<Column(c.column, composed), Kw(" "), Raw(c.operator), Kw(" "), Ph>>,
               <<c.value>>)

\* the text and the parameters of one condition
ConditionClause(c, composed) ==
    IF IsNullCheck(c)
    THEN Built(NoError, <<Column(c.column, composed), Kw(" "), Raw(upper(c.operator))>>,
               ConditionParams(c))
    ELSE IF IsInCheck(c)
    THEN IF ~isinstance_list(c.value)
         THEN Built(Raise(<<"Value for ", c.operator, " must be a list or tuple">>), <<>>, <<>>)
         ELSE Built(NoError,
                    <<Column(c.column, composed), Kw(" "), Raw(upper(c.operator)), Kw(" (")>>
                      \o Join(Repeat(<<Ph>>, Len(c.value.items)), <<Kw(", ")>>)
                      \o <<Kw(")")>>,
                    ConditionParams(c))
    ELSE Built(NoError, <<Column(c.column, composed), Kw(" "), Raw(c.operator), Kw(" "), Ph>>,
               ConditionParams(c))

\* Connector taking the operator of the condition it precedes
ConnectorOwnOperator(conditions, i) ==
    IF i > 1 THEN <<Kw(" "), Raw(upper(conditions[i].logical_operator)), Kw(" ")>> ELSE <<>>

\* f" {logical_op} " with logical_op = conditions[i-1].logical_operator.upper():
\* what is written before condition i
Connector(conditions, i) ==
    IF i > 1 THEN <<Kw(" "), Raw(upper(conditions[i-1].logical_operator)), Kw(" ")>> ELSE <<>>

RECURSIVE WhereParts(_, _, _)
\* the loop over enumerate(conditions), from index i on
WhereParts(conditions, i, composed) ==
    IF i > Len(conditions) THEN Built(NoError, <<>>, <<>>)
    ELSE LET here == ConditionClause(conditions[i], composed)
             connector == Connector(conditions, i)
         IN  IF here.err # NoError THEN here
             ELSE LET rest == WhereParts(conditions, i + 1, composed)
                  IN  IF rest.err # NoError THEN rest
                      ELSE Built(NoError, connector \o here.sql \o rest.sql,
                                 here.params \o rest.params)

\* CrudOperations._build_where_clause: no fragment for an empty list
_build_where_clause(conditions) ==
    IF conditions = <<>> THEN Built(NoError, <<>>, <<>>)
    ELSE WhereParts(conditions, 1, TRUE)

\* the WHERE block of SimpleCrudOperations.query_records/update_records/delete_records
SimpleWhere(conditions) ==
    IF conditions = <<>> THEN Built(NoError, <<>>, <<>>)
    ELSE LET w == WhereParts(conditions, 1, FALSE)
         IN  IF w.err # NoError THEN w
             ELSE IF w.sql # <<>> THEN Built(NoError, <<Kw(" WHERE ")>> \o w.sql, w.params)
             ELSE w

\* the RETURNING block of the string builders
SimpleReturning(returning_columns) ==
    IF returning_columns # <<>>
    THEN <<Kw(" RETURNING ")>>
           \o Join([i \in 1..Len(returning_columns) |-> <<QuoteIdent(returning_columns[i])>>],
                   <<Kw(", ")>>)
    ELSE <<>>

(***************************************************************************)
(* Type formatter and CREATE TABLE                                         *)
(***************************************************************************)
ColumnDefinition(name, data_type, nullable, default, primary_key, unique, check_constraint, vector_dimensions) ==
    [name |-> name, data_type |-> data_type, nullable |-> nullable, default |-> default,
     primary_key |-> primary_key, unique |-> unique,
     check_constraint |-> check_constraint, vector_dimensions |-> vector_dimensions]

TableDefinition(name, schema, columns, constraints) ==
    [name |-> name, schema |-> schema, columns |-> columns, constraints |-> constraints]

FormatDataType(column) ==
    IF column.data_type = "vector"
    THEN IF column.vector_dimensions = Nothing
         THEN Built(Raise(<<"Vector column ", column.name, " must specify vector_dimensions">>),
                    <<>>, <<>>)
         ELSE Built(NoError,
                    <<Kw("vector("), RawValue(IntV(column.vector_dimensions[1])), Kw(")")>>, <<>>)
    ELSE IF column.data_type \in {"varchar", "char"}
    THEN Built(NoError, <<Kw(column.data_type), Kw("(255)")>>, <<>>)
    ELSE IF column.data_type \in {"decimal", "numeric"}
    THEN Built(NoError, <<Kw(column.data_type), Kw("(10,2)")>>, <<>>)
    ELSE Built(NoError, <<Kw(column.data_type)>>, <<>>)

\* CrudOperations._format_data_type
Crud_format_data_type(column) == FormatDataType(column)

\* SimpleCrudOperations._format_data_type
Simple_format_data_type(column) ==
    IF column.data_type = "vector"
    THEN IF column.vector_dimensions = Nothing
         THEN Built(Raise(<<"Vector column ", column.name, " must specify vector_dimensions">>),
                    <<>>, <<>>)
         ELSE Built(NoError,
                    <<Kw("vector("), RawValue(IntV(column.vector_dimensions[1])), Kw(")")>>, <<>>)
    ELSE IF column.data_type \in {"varchar", "char"}
    THEN Built(NoError, <<Kw(column.data_type), Kw("(255)")>>, <<>>)
    ELSE IF column.data_type \in {"decimal", "numeric"}
    THEN Built(NoError, <<Kw(column.data_type), Kw("(10,2)")>>, <<>>)
    ELSE Built(NoError, <<Kw(column.data_type)>>, <<>>)

\* a renderer that passes every enum value through unchanged
Vector_format_data_type_bare(column) ==
    Built(NoError, <<Kw(column.data_type)>>, <<>>)

\* VectorOperations._format_data_type
Vector_format_data_type(column) ==
    IF column.data_type = "vector"
    THEN IF column.vector_dimensions = Nothing
         THEN Built(Raise(<<"Vector column ", column.name, " must specify vector_dimensions">>),
                    <<>>, <<>>)
         ELSE Built(NoError,
                    <<Kw("vector("), RawValue(IntV(column.vector_dimensions[1])), Kw(")")>>, <<>>)
    ELSE IF column.data_type \in {"varchar", "char"}
    THEN Built(NoError, <<Kw(column.data_type), Kw("(255)")>>, <<>>)
    ELSE IF column.data_type \in {"decimal", "numeric"}
    THEN Built(NoError, <<Kw(column.data_type), Kw("(10,2)")>>, <<>>)
    ELSE Built(NoError, <<Kw(column.data_type)>>, <<>>)

\* self._format_data_type(col) as each of the three classes resolves it
_format_data_type(self, column) ==
    CASE self = "Crud" -> Crud_format_data_type(column)
      [] self = "Simple" -> Simple_format_data_type(column)
      [] self = "Vector" -> Vector_format_data_type(column)

special_functions ==
    {"CURRENT_TIMESTAMP", "CURRENT_DATE", "CURRENT_TIME", "NOW()", "UUID_GENERATE_V4()"}

\* the modifiers appended to one column definition; special is the set of
\* defaults the builder leaves unquoted
ColumnModifiers(col, special) ==
    (IF ~col.nullable THEN <<Kw(" NOT NULL")>> ELSE <<>>)
    \o (IF col.default # None
        THEN IF col.default.t = "str" /\ col.default.items[1] \notin special
             THEN <<Kw(" DEFAULT '"), RawValue(col.default), Kw("'")>>
             ELSE <<Kw(" DEFAULT "), RawValue(col.default)>>
        ELSE <<>>)
    \o (IF col.primary_key THEN <<Kw(" PRIMARY KEY")>> ELSE <<>>)
    \o (IF col.unique /\ ~col.primary_key THEN <<Kw(" UNIQUE")>> ELSE <<>>)
    \o (IF col.check_constraint # Nothing
        THEN <<Kw(" CHECK ("), Raw(col.check_constraint[1]), Kw(")")>>
        ELSE <<>>)

RECURSIVE ColumnDefs(_, _, _, _)
\* the loop over the columns, from index i on; the first column whose type
\* cannot be formatted raises
ColumnDefs(columns, i, special, self) ==
    IF i > Len(columns) THEN Built(NoError, <<>>, <<>>)
    ELSE LET ty == _format_data_type(self, columns[i])
         IN  IF ty.err # NoError THEN ty
             ELSE LET rest == ColumnDefs(columns, i + 1, special, self)
                      col_def == <<QuoteIdent(columns[i].name), Kw(" ")>> \o ty.sql
                                   \o ColumnModifiers(columns[i], special)
                  IN  IF rest.err # NoError THEN rest
                      ELSE Built(NoError,
                                 col_def \o (IF rest.sql # <<>> THEN <<Kw(", ")>> ELSE <<>>)
                                         \o rest.sql,
                                 <<>>)

TableConstraints(column_sql, constraints) ==
    IF constraints = <<>> THEN <<>>
    ELSE (IF column_sql # <<>> THEN <<Kw(", ")>> ELSE <<>>)
         \o Join([i \in 1..Len(constraints) |-> <<Raw(constraints[i])>>], <<Kw(", ")>>)

CreateTableSql(schema, name, defs) ==
    <<Kw("CREATE TABLE "), QuoteIdent(schema), Kw("."), QuoteIdent(name), Kw(" (")>>
      \o defs \o <<Kw(")")>>

\* CrudOperations._build_create_table_sql: every string default is quoted
_build_create_table_sql(table_def) ==
    LET cols == ColumnDefs(table_def.columns, 1, {}, "Crud")
    IN  IF cols.err # NoError THEN cols
        ELSE Built(NoError,
                   CreateTableSql(table_def.schema, table_def.name,
                                  cols.sql \o TableConstraints(cols.sql, table_def.constraints)),
                   <<>>)

\* the statement of SimpleCrudOperations.create_table
Simple_create_table_sql(table_def) ==
    LET cols == ColumnDefs(table_def.columns, 1, special_functions, "Simple")
    IN  IF cols.err # NoError THEN cols
        ELSE Built(NoError,
                   CreateTableSql(table_def.schema, table_def.name,
                                  cols.sql \o TableConstraints(cols.sql, table_def.constraints)),
                   <<>>)

\* the statement of VectorOperations.create_vector_table: id, the vector
\* column and created_at come first, then the caller's columns
create_vector_table_sql(table_name, schema, vector_column, vector_dimensions, additional_columns) ==
    LET columns ==
            << ColumnDefinition(<<"id">>, "serial", FALSE, None, TRUE, FALSE, Nothing, Nothing),
               ColumnDefinition(vector_column, "vector", TRUE, None, FALSE, FALSE, Nothing,
                                vector_dimensions),
               ColumnDefinition(<<"created_at">>, "timestamp", FALSE,
                                StrV("CURRENT_TIMESTAMP"), FALSE, FALSE, Nothing, Nothing) >>
            \o additional_columns
        cols == ColumnDefs(columns, 1, special_functions, "Vector")
    IN  IF cols.err # NoError THEN cols
        ELSE Built(NoError, CreateTableSql(schema, table_name, cols.sql), <<>>)

(***************************************************************************)
(* INSERT                                                                  *)
(***************************************************************************)
InsertSql(table_name, schema, columns, returning_columns) ==
    <<Kw("INSERT INTO "), QuoteIdent(schema), Kw("."), QuoteIdent(table_name), Kw(" (")>>
      \o Join([i \in 1..Len(columns) |-> <<QuoteIdent(columns[i])>>], <<Kw(", ")>>)
      \o <<Kw(") VALUES (")>>
      \o Join(Repeat(<<Ph>>, Len(columns)), <<Kw(", ")>>)
      \o <<Kw(")")>>
      \o SimpleReturning(returning_columns)

\* SimpleCrudOperations.insert_records up to the loop: the statement text;
\* the columns are the keys of the first record
Simple_insert_sql(table_name, data, schema, returning_columns) ==
    IF data = <<>> THEN Built(Raise(<<"No data provided for insert">>), <<>>, <<>>)
    ELSE Built(NoError, InsertSql(table_name, schema, keys(data[1]), returning_columns), <<>>)

\* Simple_insert_params reading every record by its own keys
Simple_insert_params_own_keys(columns, row) ==
    [i \in 1..Len(row) |->
        IF isinstance_list(row[i].val) THEN json_dumps(row[i].val) ELSE row[i].val]

\* the parameters SimpleCrudOperations.insert_records sends for one record
Simple_insert_params(columns, row) ==
    [i \in 1..Len(columns) |->
        LET value == get(row, columns[i])
        IN  IF isinstance_list(value) THEN json_dumps(value) ELSE value]

\* CrudOperations._build_insert_sql: a str and the parameter lists of all records
_build_insert_sql(table_name, data, schema, returning_columns) ==
    IF data = <<>> THEN Built(Raise(<<"No data provided for insert">>), <<>>, <<>>)
    ELSE Built(NoError,
               InsertSql(table_name, schema, keys(data[1]), returning_columns),
               [r \in 1..Len(data) |->
                   [i \in 1..Len(keys(data[1])) |-> get(data[r], keys(data[1])[i])]])

\* VectorOperations.insert_vector_data: the rows to insert
vector_data_rows(vectors, vector_column, additional_data) ==
    [i \in 1..Len(vectors) |->
        update(<<Item(vector_column, vectors[i])>>,
               IF i <= Len(additional_data) THEN additional_data[i] ELSE <<>>)]

\* VectorOperations.insert_vector_data up to the loop
vector_insert_sql(table_name, vectors, schema, vector_column, additional_data, returning_columns) ==
    IF vectors = <<>> THEN Built(Raise(<<"No vectors provided for insert">>), <<>>, <<>>)
    ELSE Built(NoError,
               InsertSql(table_name, schema,
                         keys(vector_data_rows(vectors, vector_column, additional_data)[1]),
                         returning_columns),
               <<>>)

\* the parameters VectorOperations.insert_vector_data sends for one row
vector_insert_params(columns, row, vector_column) ==
    [i \in 1..Len(columns) |->
        LET value == get(row, columns[i])
        IN  IF columns[i] = vector_column /\ isinstance_list(value) THEN vector_literal(value)
            ELSE IF isinstance_list(value) /\ columns[i] # vector_column THEN json_dumps(value)
            ELSE value]

(***************************************************************************)
(* UPDATE, DELETE, SELECT                                                  *)
(***************************************************************************)
QueryOptions(limit, offset, order_by, group_by, having) ==
    [limit |-> limit, offset |-> offset, order_by |-> order_by, group_by |-> group_by,
     having |-> having]

\* the truth value of an Optional[int]: None and 0 are false
Truthy(opt) == opt # Nothing /\ opt[1] # 0

SetAssignments(data, composed) ==
    Join([i \in 1..Len(data) |-> <<Column(data[i].key, composed), Kw(" = "), Ph>>],
         <<Kw(", ")>>)

SetParams(data) == [i \in 1..Len(data) |-> data[i].val]

\* the statement of SimpleCrudOperations.update_records
Simple_update_sql(table_name, data, conditions, schema, returning_columns) ==
    IF data = <<>> THEN Built(Raise(<<"No data provided for update">>), <<>>, <<>>)
    ELSE LET w == SimpleWhere(conditions)
         IN  IF w.err # NoError THEN w
             ELSE Built(NoError,
                        <<Kw("UPDATE "), QuoteIdent(schema), Kw("."), QuoteIdent(table_name),
                          Kw(" SET ")>>
                          \o SetAssignments(data, FALSE) \o w.sql
                          \o SimpleReturning(returning_columns),
                        SetParams(data) \o w.params)

\* the statement of SimpleCrudOperations.delete_records
Simple_delete_sql(table_name, conditions, schema, returning_columns) ==
    LET w == SimpleWhere(conditions)
    IN  IF w.err # NoError THEN w
        ELSE Built(NoError,
                   <<Kw("DELETE FROM "), QuoteIdent(schema), Kw("."), QuoteIdent(table_name)>>
                     \o w.sql \o SimpleReturning(returning_columns),
                   w.params)

SelectList(columns, composed) ==
    IF columns # <<>>
    THEN Join([i \in 1..Len(columns) |-> <<Column(columns[i], composed)>>], <<Kw(", ")>>)
    ELSE <<Kw("*")>>

\* order.get("direction", "ASC").upper()
Direction(order) ==
    IF order.direction = Nothing THEN Kw("ASC") ELSE Raw(upper(order.direction[1]))

\* the ORDER BY block; a sort spec without the key "column" raises KeyError
OrderBy(order_by, composed) ==
    IF order_by = <<>> THEN Built(NoError, <<>>, <<>>)
    ELSE IF \E i \in 1..Len(order_by) : order_by[i].column = Nothing
    THEN Built(Raise(<<"'column'">>), <<>>, <<>>)
    ELSE Built(NoError,
               <<Kw(" ORDER BY ")>>
                 \o Join([i \in 1..Len(order_by) |->
                            <<Column(order_by[i].column[1], composed), Kw(" "),
                              Direction(order_by[i])>>],
                         <<Kw(", ")>>),
               <<>>)

\* the statement of SimpleCrudOperations.query_records: GROUP BY and HAVING
\* are not read, LIMIT and OFFSET are formatted into the text
Simple_query_sql(table_name, columns, conditions, options, schema) ==
    LET w == SimpleWhere(conditions)
        o == IF options = Nothing THEN Built(NoError, <<>>, <<>>)
             ELSE OrderBy(options[1].order_by, FALSE)
    IN  IF w.err # NoError THEN w
        ELSE IF o.err # NoError THEN o
        ELSE Built(NoError,
                   <<Kw("SELECT ")>> \o SelectList(columns, FALSE)
                     \o <<Kw(" FROM "), QuoteIdent(schema), Kw("."), QuoteIdent(table_name)>>
                     \o w.sql \o o.sql
                     \o (IF options # Nothing /\ Truthy(options[1].limit)
                         THEN <<Kw(" LIMIT "), ValText(IntV(options[1].limit[1]))>> ELSE <<>>)
                     \o (IF options # Nothing /\ Truthy(options[1].offset)
                         THEN <<Kw(" OFFSET "), ValText(IntV(options[1].offset[1]))>> ELSE <<>>),
                   w.params)

\* ComposedWhere without the test of where_clauses
ComposedWhereAlways(w) == <<Kw(" WHERE ")>> \o w.sql

\* if where_clauses: sql_parts.append(SQL(" WHERE {}").format(where_clauses))
ComposedWhere(w) == IF w.sql # <<>> THEN <<Kw(" WHERE ")>> \o w.sql ELSE <<>>

ComposedReturning(returning_columns) ==
    IF returning_columns # <<>>
    THEN <<Kw(" RETURNING ")>>
           \o Join([i \in 1..Len(returning_columns) |-> <<Identifier(returning_columns[i])>>],
                   <<Kw(", ")>>)
    ELSE <<>>

\* CrudOperations._build_update_sql
_build_update_sql(table_name, data, conditions, schema, returning_columns) ==
    IF data = <<>> THEN Built(Raise(<<"No data provided for update">>), <<>>, <<>>)
    ELSE LET w == _build_where_clause(conditions)
         IN  IF w.err # NoError THEN w
             ELSE Built(NoError,
                        <<Kw("UPDATE "), Identifier(schema), Kw("."), Identifier(table_name),
                          Kw(" SET ")>>
                          \o SetAssignments(data, TRUE) \o ComposedWhere(w)
                          \o ComposedReturning(returning_columns),
                        SetParams(data) \o w.params)

\* CrudOperations._build_delete_sql
_build_delete_sql(table_name, conditions, schema, returning_columns) ==
    LET w == _build_where_clause(conditions)
    IN  IF w.err # NoError THEN w
        ELSE Built(NoError,
                   <<Kw("DELETE FROM "), Identifier(schema), Kw("."), Identifier(table_name)>>
                     \o ComposedWhere(w) \o ComposedReturning(returning_columns),
                   w.params)

\* CrudOperations._build_select_sql
_build_select_sql(table_name, columns, conditions, options, schema) ==
    LET w == _build_where_clause(conditions)
        h == IF options = Nothing THEN Built(NoError, <<>>, <<>>)
             ELSE _build_where_clause(options[1].having)
        o == IF options = Nothing THEN Built(NoError, <<>>, <<>>)
             ELSE OrderBy(options[1].order_by, TRUE)
    IN  IF w.err # NoError THEN w
        ELSE IF h.err # NoError THEN h
        ELSE IF o.err # NoError THEN o
        ELSE Built(NoError,
                   <<Kw("SELECT ")>> \o SelectList(columns, TRUE)
                     \o <<Kw(" FROM "), Identifier(schema), Kw("."), Identifier(table_name)>>
                     \o ComposedWhere(w)
                     \o (IF options # Nothing /\ options[1].group_by # <<>>
                         THEN <<Kw(" GROUP BY ")>>
                                \o Join([i \in 1..Len(options[1].group_by) |->
                                            <<Identifier(options[1].group_by[i])>>],
                                        <<Kw(", ")>>)
                         ELSE <<>>)
                     \o (IF h.sql # <<>> THEN <<Kw(" HAVING ")>> \o h.sql ELSE <<>>)
                     \o o.sql
                     \o (IF options # Nothing /\ Truthy(options[1].limit)
                         THEN <<Kw(" LIMIT "), Ph>> ELSE <<>>)
                     \o (IF options # Nothing /\ Truthy(options[1].offset)
                         THEN <<Kw(" OFFSET "), Ph>> ELSE <<>>),
                   w.params \o h.params
                     \o (IF options # Nothing /\ Truthy(options[1].limit)
                         THEN <<IntV(options[1].limit[1])>> ELSE <<>>)
                     \o (IF options # Nothing /\ Truthy(options[1].offset)
                         THEN <<IntV(options[1].offset[1])>> ELSE <<>>))

(***************************************************************************)
(* Schema, index, table and extension DDL                                  *)
(***************************************************************************)
IndexDefinition(name, table_name, columns, index_type, unique, partial_condition, vector_index_options) ==
    [name |-> name, table_name |-> table_name, columns |-> columns,
     index_type |-> index_type, unique |-> unique,
     partial_condition |-> partial_condition,
     vector_index_options |-> vector_index_options]

\* create_schema of SimpleSchemaOperations (composed = FALSE) and of
\* SchemaOperations (composed = TRUE)
create_schema_sql(schema_name, if_not_exists, composed) ==
    (IF if_not_exists THEN <<Kw("CREATE SCHEMA IF NOT EXISTS ")>> ELSE <<Kw("CREATE SCHEMA ")>>)
    \o <<Column(schema_name, composed)>>

drop_schema_sql(schema_name, cascade, if_exists, composed) ==
    <<Kw("DROP SCHEMA")>>
    \o (IF if_exists THEN <<Kw(" IF EXISTS")>> ELSE <<>>)
    \o <<Kw(" "), Column(schema_name, composed)>>
    \o (IF cascade THEN <<Kw(" CASCADE")>> ELSE <<>>)

drop_index_sql(index_name, if_exists, cascade, composed) ==
    <<Kw("DROP INDEX")>>
    \o (IF if_exists THEN <<Kw(" IF EXISTS")>> ELSE <<>>)
    \o <<Kw(" "), Column(index_name, composed)>>
    \o (IF cascade THEN <<Kw(" CASCADE")>> ELSE <<>>)

drop_table_sql(table_name, schema, cascade, if_exists, composed) ==
    <<Kw("DROP TABLE")>>
    \o (IF if_exists THEN <<Kw(" IF EXISTS")>> ELSE <<>>)
    \o <<Kw(" "), Column(schema, composed), Kw("."), Column(table_name, composed)>>
    \o (IF cascade THEN <<Kw(" CASCADE")>> ELSE <<>>)

\* schema is Optional[str]; the empty string counts as absent
create_extension_sql(extension_name, if_not_exists, schema, composed) ==
    <<Kw("CREATE EXTENSION")>>
    \o (IF if_not_exists THEN <<Kw(" IF NOT EXISTS")>> ELSE <<>>)
    \o <<Kw(" "), Column(extension_name, composed)>>
    \o (IF schema # Nothing THEN <<Kw(" WITH SCHEMA "), Column(schema[1], composed)>> ELSE <<>>)

IsVectorMethod(index_type) == lower(index_type) \in {"hnsw", "ivfflat"}

IndexColumns(columns, composed) ==
    Join([i \in 1..Len(columns) |-> <<Column(columns[i], composed)>>], <<Kw(", ")>>)

\* SimpleSchemaOperations.create_index
Simple_create_index_sql(index_def, schema) ==
    <<Kw("CREATE")>>
    \o (IF index_def.unique THEN <<Kw(" UNIQUE")>> ELSE <<>>)
    \o <<Kw(" INDEX "), QuoteIdent(index_def.name), Kw(" ON "),
         QuoteIdent(schema), Kw("."), QuoteIdent(index_def.table_name),
         Kw(" USING "), Raw(index_def.index_type), Kw(" (")>>
    \o IndexColumns(index_def.columns, FALSE) \o <<Kw(")")>>
    \o (IF index_def.partial_condition # Nothing
        THEN <<Kw(" WHERE "), Raw(index_def.partial_condition[1])>> ELSE <<>>)
    \o (IF IsVectorMethod(index_def.index_type) /\ index_def.vector_index_options # <<>>
        THEN <<Kw(" WITH (")>>
               \o Join([i \in 1..Len(index_def.vector_index_options) |->
                          LET it == index_def.vector_index_options[i]
                          IN  IF it.val.t = "str"
                              THEN <<Raw(it.key), Kw(" = '"), RawValue(it.val), Kw("'")>>
                              ELSE <<Raw(it.key), Kw(" = "), RawValue(it.val)>>],
                       <<Kw(", ")>>)
               \o <<Kw(")")>>
        ELSE <<>>)

\* SchemaOperations.create_index: the table is not schema-qualified and
\* option values are never quoted
Schema_create_index_sql(index_def) ==
    <<Kw("CREATE")>>
    \o (IF index_def.unique THEN <<Kw(" UNIQUE")>> ELSE <<>>)
    \o <<Kw(" INDEX "), Identifier(index_def.name), Kw(" ON "),
         Identifier(index_def.table_name),
         Kw(" USING "), Raw(index_def.index_type), Kw(" (")>>
    \o IndexColumns(index_def.columns, TRUE) \o <<Kw(")")>>
    \o (IF index_def.partial_condition # Nothing
        THEN <<Kw(" WHERE "), Raw(index_def.partial_condition[1])>> ELSE <<>>)
    \o (IF IsVectorMethod(index_def.index_type) /\ index_def.vector_index_options # <<>>
        THEN <<Kw(" WITH (")>>
               \o Join([i \in 1..Len(index_def.vector_index_options) |->
                          LET it == index_def.vector_index_options[i]
                          IN  <<Raw(it.key), Kw(" = "), RawValue(it.val)>>],
                       <<Kw(", ")>>)
               \o <<Kw(")")>>
        ELSE <<>>)

(***************************************************************************)
(* Vector similarity subsystem                                             *)
(***************************************************************************)
VectorSearchOptions(vector, distance_function, limit, threshold, include_distance) ==
    [vector |-> vector, distance_function |-> distance_function, limit |-> limit,
     threshold |-> threshold, include_distance |-> include_distance]

\* a distance expression that falls back to the euclidean operator
_get_distance_expression_fallback(vector_column, search_vector, distance_function) ==
    Built(NoError,
          <<QuoteIdent(vector_column),
            Kw(IF distance_function = "cosine" THEN " <=> "
               ELSE IF distance_function = "inner_product" THEN " <#> " ELSE " <-> "),
            Kw("'"), ValText(vector_literal(search_vector)), Kw("'::vector")>>,
          <<>>)

\* VectorOperations._get_distance_expression: the vector is formatted into
\* the text as a literal
_get_distance_expression(vector_column, search_vector, distance_function) ==
    LET expr(op) == <<QuoteIdent(vector_column), Kw(op), Kw("'"),
                      ValText(vector_literal(search_vector)), Kw("'::vector")>>
    IN  IF distance_function = "cosine" THEN Built(NoError, expr(" <=> "), <<>>)
        ELSE IF distance_function = "euclidean" THEN Built(NoError, expr(" <-> "), <<>>)
        ELSE IF distance_function = "inner_product" THEN Built(NoError, expr(" <#> "), <<>>)
        ELSE Built(Raise(<<"Unsupported distance function: ", distance_function>>), <<>>, <<>>)

VectorSelectList(additional_columns, distance) ==
    Join([i \in 1..(1 + Len(additional_columns)) |->
            <<QuoteIdent(IF i = 1 THEN <<"id">> ELSE additional_columns[i - 1])>>]
         \o (IF distance # <<>> THEN <<distance \o <<Kw(" AS distance")>>>> ELSE <<>>),
         <<Kw(", ")>>)

\* the statement of VectorOperations.vector_similarity_search; without
\* include_distance the name distance_expr is read before it is bound
vector_similarity_search_sql(table_name, schema, vector_column, search_options, additional_columns) ==
    IF search_options = Nothing
    THEN Built(Raise(<<"search_options is required for vector similarity search">>), <<>>, <<>>)
    ELSE LET so == search_options[1]
             d == _get_distance_expression(vector_column, so.vector, so.distance_function)
         IN  IF so.include_distance /\ d.err # NoError THEN d
             ELSE IF ~so.include_distance
             THEN Built(Raise(<<"cannot access free variable 'distance_expr'">>), <<>>, <<>>)
             ELSE Built(NoError,
                        <<Kw("SELECT ")>> \o VectorSelectList(additional_columns, d.sql)
                          \o <<Kw(" FROM "), QuoteIdent(schema), Kw("."), QuoteIdent(table_name)>>
                          \o (IF so.threshold # Nothing
                              THEN <<Kw(" WHERE ")>> \o d.sql \o <<Kw(" < "), Ph>> ELSE <<>>)
                          \o <<Kw(" ORDER BY ")>> \o d.sql
                          \o (IF Truthy(so.limit)
                              THEN <<Kw(" LIMIT "), ValText(IntV(so.limit[1]))>> ELSE <<>>),
                        IF so.threshold # Nothing THEN <<FloatV(so.threshold[1])>> ELSE <<>>)

\* the statement of VectorOperations.vector_knn_search: k is formatted into
\* the text and no parameter list is passed
vector_knn_search_sql(table_name, schema, vector_column, search_vector, k, distance_function, additional_columns, include_distance) ==
    LET d == _get_distance_expression(vector_column, search_vector, distance_function)
    IN  IF d.err # NoError THEN d
        ELSE Built(NoError,
                   <<Kw("SELECT ")>>
                     \o VectorSelectList(additional_columns,
                                         IF include_distance THEN d.sql ELSE <<>>)
                     \o <<Kw(" FROM "), QuoteIdent(schema), Kw("."), QuoteIdent(table_name)>>
                     \o <<Kw(" ORDER BY ")>> \o d.sql
                     \o <<Kw(" LIMIT "), ValText(IntV(k))>>,
                   <<>>)

default_options == <<Item("m", IntV(16)), Item("ef_construction", IntV(64))>>

\* the statement of VectorOperations.create_vector_index
create_vector_index_sql(table_name, schema, vector_column, index_name, index_type, index_options) ==
    LET name == IF index_name = Nothing
                THEN <<"idx_">> \o table_name \o <<"_">> \o vector_column \o <<"_", index_type>>
                ELSE index_name[1]
        options == update(default_options, index_options)
    IN  <<Kw("CREATE INDEX "), QuoteIdent(name), Kw(" ON "),
          QuoteIdent(schema), Kw("."), QuoteIdent(table_name),
          Kw(" USING "), Raw(index_type), Kw(" ("), QuoteIdent(vector_column), Kw(")")>>
        \o (IF lower(index_type) = "hnsw"
            THEN <<Kw(" WITH (")>>
                   \o Join([i \in 1..Len(options) |->
                              <<Raw(options[i].key), Kw(" = "), RawValue(options[i].val)>>],
                           <<Kw(", ")>>)
                   \o <<Kw(")")>>
            ELSE <<>>)

NameV(name) == [t |-> "name", n |-> 0, items |-> name]

\* the statement of VectorOperations.get_vector_index_stats: a fixed catalog
\* query with nine placeholders
get_vector_index_stats_sql(table_name, schema, vector_column) ==
    Statement(<<Kw("SELECT "),
                Kw("schemaname, tablename, indexname, indexdef, index_size, index_method, "),
                Kw("(SELECT n_tup_ins FROM pg_stat_user_tables WHERE schemaname = "), Ph,
                Kw(" AND tablename = "), Ph, Kw(") AS table_inserts, "),
                Kw("(SELECT n_tup_upd FROM pg_stat_user_tables WHERE schemaname = "), Ph,
                Kw(" AND tablename = "), Ph, Kw(") AS table_updates, "),
                Kw("(SELECT n_tup_del FROM pg_stat_user_tables WHERE schemaname = "), Ph,
                Kw(" AND tablename = "), Ph, Kw(") AS table_deletes "),
                Kw("FROM pg_indexes WHERE schemaname = "), Ph,
                Kw(" AND tablename = "), Ph, Kw(" AND indexdef LIKE "), Ph>>,
              <<NameV(schema), NameV(table_name), NameV(schema), NameV(table_name),
                NameV(schema), NameV(table_name), NameV(schema), NameV(table_name),
                NameV(<<"%">> \o vector_column \o <<"%">>)>>)

\* the statement of VectorOperations.optimize_vector_index
optimize_vector_index_sql(index_name, schema) ==
    <<Kw("REINDEX INDEX "), QuoteIdent(schema), Kw("."), QuoteIdent(index_name)>>

(***************************************************************************)
(* Inputs                                                                  *)
(***************************************************************************)
RECURSIVE SeqsUpTo(_, _)
\* the sequences over S of length at most n
SeqsUpTo(S, n) ==
    IF n = 0 THEN {<<>>}
    ELSE LET shorter == SeqsUpTo(S, n - 1)
         IN  shorter \cup {Append(q, x) : q \in shorter, x \in S}

public == <<"public">>
Plain == <<"t">>
Quoted == <<"t", DQ, "x">>
Names == {Plain, Quoted}

ColA == <<"a">>
ColB == <<"b">>
ColId == <<"id">>
Age == <<"age">>
Active == <<"active">>
Embedding == <<"embedding">>

RecordPool ==
    { <<Item(ColA, IntV(1))>>,
      <<Item(ColA, IntV(2)), Item(ColB, ListV(<<IntV(7)>>))>>,
      <<Item(ColB, IntV(3))>> }

DataLists == SeqsUpTo(RecordPool, MaxBatch)

ReturningLists == {<<>>, <<ColId>>}

ConditionPool ==
    { QueryCondition(Age, ">", IntV(25), "AND"),
      QueryCondition(Active, "=", BoolV(TRUE), "AND"),
      QueryCondition(ColB, "IN", ListV(<<IntV(1), IntV(2)>>), "or"),
      QueryCondition(ColB, "IN", ListV(<<>>), "AND"),
      QueryCondition(ColB, "NOT IN", IntV(5), "AND"),
      QueryCondition(ColA, "is null", None, "OR") }

ConditionLists == SeqsUpTo(ConditionPool, MaxConds)

SortSpec(column, direction) == [column |-> column, direction |-> direction]

OptionsPool ==
    { Nothing,
      Some(QueryOptions(Nothing, Nothing, <<>>, <<>>, <<>>)),
      Some(QueryOptions(Some(0), Some(0), <<SortSpec(Some(ColA), Nothing)>>, <<>>, <<>>)),
      Some(QueryOptions(Some(5), Some(2), <<SortSpec(Some(ColA), Some("desc"))>>, <<>>, <<>>)),
      Some(QueryOptions(Some(5), Nothing, <<SortSpec(Some(ColA), Some("; DROP"))>>,
                        <<ColB>>, <<QueryCondition(ColB, ">", IntV(1), "AND")>>)),
      Some(QueryOptions(Nothing, Nothing, <<SortSpec(Nothing, Nothing)>>, <<>>,
                        <<QueryCondition(ColB, "IN", IntV(1), "AND")>>)) }

UpdateData == {<<>>, <<Item(ColA, IntV(9))>>}

ColumnPool ==
    { ColumnDefinition(ColId, "serial", FALSE, None, TRUE, TRUE, Nothing, Nothing),
      ColumnDefinition(Embedding, "vector", TRUE, None, FALSE, FALSE, Nothing, Some(3)),
      ColumnDefinition(Embedding, "vector", TRUE, None, FALSE, FALSE, Nothing, Nothing),
      ColumnDefinition(Quoted, "varchar", FALSE, StrV("pending"), FALSE, TRUE,
                       Some("a > 0"), Nothing),
      ColumnDefinition(ColA, "timestamp", TRUE, StrV("CURRENT_TIMESTAMP"), FALSE, FALSE,
                       Nothing, Nothing),
      ColumnDefinition(ColB, "decimal", TRUE, IntV(0), FALSE, FALSE, Nothing, Nothing),
      ColumnDefinition(ColB, "char", TRUE, StrV("NOW()"), FALSE, FALSE, Nothing, Nothing) }

ColumnLists == SeqsUpTo(ColumnPool, MaxColumns)

TableDefs ==
    { TableDefinition(name, public, columns, constraints) :
        name \in Names, columns \in ColumnLists,
        constraints \in {<<>>, <<"UNIQUE (a, b)">>} }

IndexTypes == {"btree", "hnsw", "IVFFLAT"}

IndexOptions == {<<>>, <<Item("m", IntV(8))>>, <<Item("lists", IntV(100))>>}

IndexDefs ==
    { IndexDefinition(name, Plain, <<ColA>>, index_type, unique, partial, options) :
        name \in Names, index_type \in IndexTypes, unique \in BOOLEAN,
        partial \in {Nothing, Some("a > 0")}, options \in IndexOptions }

Vectors == {ListV(<<FloatV(0), FloatV(1)>>)}

DistanceFunctions == {"cosine", "euclidean", "inner_product", "manhattan"}

SearchOptionsPool ==
    {Nothing} \cup
    { Some(VectorSearchOptions(vector, distance_function, limit, threshold, include_distance)) :
        vector \in Vectors, distance_function \in DistanceFunctions,
        limit \in {Some(0), Some(3)}, threshold \in {Nothing, Some(0)},
        include_distance \in BOOLEAN }

VectorLists == SeqsUpTo(Vectors, MaxBatch)

AdditionalData ==
    { <<>>, <<<<Item(ColA, IntV(1))>>>>,
      <<<<Item(Embedding, IntV(4)), Item(ColB, ListV(<<IntV(7)>>))>>>> }

DriverErrors == {<<"relation does not exist">>, <<"duplicate key value">>}

(***************************************************************************)
(* State                                                                   *)
(***************************************************************************)
VARIABLES
    pc,             \* "idle", "await" (a statement is with the driver), "done"
    call,           \* the public operation in progress and its arguments
    stmt,           \* the statement handed to the driver at the current await
    idx,            \* insert loop: the 1-based index of the record being sent
    affected_rows,  \* insert loop: the local counter
    returned_data,  \* insert loop: the local list of returned rows
    result,         \* the result object returned to the caller
    escaped,        \* an exception left the operation
    sent,           \* the statements the driver was called with, in order
    got,            \* what the driver returned for each completed execution
    db,             \* the rows the database holds: the parameters of every applied INSERT
    modified,       \* the number of rows the last UPDATE or DELETE changed
    raised,         \* str(e) of the exception the driver raised, if it raised
    catalog,        \* the schemas and indexes the database holds
    history,        \* the calls completed so far, each with its result and the catalog it left
    tasks,          \* concurrent insert_records calls: the local variables of each
    tool,           \* the remote-callable tool in progress, its arguments and its position
    response,       \* what the tool returned to the remote caller
    shutdown_in_progress,   \* the module-level flag of server.py
    shutdowns,      \* the shutdown() tasks scheduled so far: signal and position of each
    closes,         \* how many times db_connection.close() was invoked
    exit_status     \* the status the process exited with, if it has

\* the state one call works on
callVars == <<pc, call, stmt, idx, affected_rows, returned_data, result, escaped, sent, got,
              db, modified, raised>>

\* the state that outlives a call
sessionVars == <<catalog, history>>

\* the state of calls that run concurrently
otherVars == <<tasks>>

\* the state of a tool call
toolVars == <<tool, response>>

\* the state of the shutdown handler
shutdownVars == <<shutdown_in_progress, shutdowns, closes, exit_status>>

\* the state of the dispatch layer
serverVars == <<toolVars, shutdownVars>>

vars == <<callVars, sessionVars, otherVars, serverVars>>

QueryOps ==
    {"Simple.query_records", "Crud.query_records", "Vector.vector_similarity_search",
     "Vector.vector_knn_search", "Vector.get_vector_index_stats"}

InsertOps == {"Simple.insert_records", "Crud.insert_records", "Vector.insert_vector_data"}

ModifyOps ==
    {"Simple.update_records", "Simple.delete_records", "Crud.update_records",
     "Crud.delete_records"}

IntStr(n) == <<"0", "1", "2", "3", "4", "5", "6", "7", "8", "9">>[n + 1]

\* the text every except block puts before str(e)
FailPrefix(op) ==
    CASE op \in {"Simple.create_table", "Crud.create_table"} -> "Failed to create table: "
      [] op \in {"Simple.insert_records", "Crud.insert_records"} -> "Failed to insert records: "
      [] op \in {"Simple.query_records", "Crud.query_records"} -> "Failed to query records: "
      [] op \in {"Simple.update_records", "Crud.update_records"} -> "Failed to update records: "
      [] op \in {"Simple.delete_records", "Crud.delete_records"} -> "Failed to delete records: "
      [] op = "create_schema" -> "Failed to create schema: "
      [] op = "drop_schema" -> "Failed to drop schema: "
      [] op = "create_index" -> "Failed to create index: "
      [] op = "drop_index" -> "Failed to drop index: "
      [] op = "drop_table" -> "Failed to drop table: "
      [] op = "create_extension" -> "Failed to create extension: "
      [] op = "Vector.create_vector_table" -> "Failed to create vector table: "
      [] op = "Vector.vector_similarity_search" -> "Vector similarity search failed: "
      [] op = "Vector.vector_knn_search" -> "Vector KNN search failed: "
      [] op = "Vector.create_vector_index" -> "Failed to create vector index: "
      [] op = "Vector.insert_vector_data" -> "Failed to insert vector data: "
      [] op = "Vector.get_vector_index_stats" -> "Failed to get vector index stats: "
      [] op = "Vector.optimize_vector_index" -> "Failed to optimize vector index: "

\* FailureMessage without the text of the exception
FailureMessageOmitsError(op, e) == <<FailPrefix(op)>>

\* message=f"Failed to ...: {str(e)}"
FailureMessage(op, e) == <<FailPrefix(op)>> \o e

\* Catch with a handler that raises again
CatchReraise(op, e) == [result |-> NoResult, escaped |-> TRUE]

\* except Exception as e: the failure result; nothing is raised again and the
\* local affected_rows is not copied into the result
Catch(op, e) ==
    [result |-> IF op \in QueryOps
                THEN QueryResult(FALSE, FailureMessage(op, e), <<>>)
                ELSE OperationResult(FALSE, FailureMessage(op, e), Nothing, <<>>),
     escaped |-> FALSE]

\* the truth value of what execute_query returned: None and [] are false
ResultTruthy(rows) == rows # Nothing /\ rows[1] # <<>>

\* [row.cells for row in result] if result else []
Cells(rows) == IF ResultTruthy(rows) THEN rows[1] ELSE <<>>

\* affected_rows = len(result) if result else 0
AffectedRows(rows) == IF ResultTruthy(rows) THEN Len(rows[1]) ELSE 0

\* f"{schema}.{table_name}" as the messages print it
Qualified(schema, table_name) == schema \o <<".">> \o table_name

\* the message of the success result of a non-insert operation; n is the
\* number of rows the message counts
SuccessMessage(c, n) ==
    CASE c.op \in {"Simple.create_table", "Crud.create_table"} ->
            <<"Table ">> \o Qualified(c.args.table_def.schema, c.args.table_def.name)
                \o <<" created successfully">>
      [] c.op \in {"Simple.query_records", "Crud.query_records"} ->
            <<"Successfully queried ", IntStr(n), " record(s) from ">>
                \o Qualified(public, c.args.table_name)
      [] c.op \in {"Simple.update_records", "Crud.update_records"} ->
            <<"Successfully updated ", IntStr(n), " record(s) in ">>
                \o Qualified(public, c.args.table_name)
      [] c.op \in {"Simple.delete_records", "Crud.delete_records"} ->
            <<"Successfully deleted ", IntStr(n), " record(s) from ">>
                \o Qualified(public, c.args.table_name)
      [] c.op = "create_schema" ->
            <<"Schema ">> \o c.args.schema_name \o <<" created successfully">>
      [] c.op = "drop_schema" ->
            <<"Schema ">> \o c.args.schema_name \o <<" dropped successfully">>
      [] c.op = "create_index" ->
            <<"Index ">> \o c.args.index_def.name \o <<" created successfully">>
      [] c.op = "drop_index" ->
            <<"Index ">> \o c.args.index_name \o <<" dropped successfully">>
      [] c.op = "drop_table" ->
            <<"Table ">> \o Qualified(public, c.args.table_name) \o <<" dropped successfully">>
      [] c.op = "create_extension" ->
            <<"Extension ">> \o c.args.extension_name \o <<" created successfully">>
      [] c.op = "Vector.create_vector_table" ->
            <<"Vector table ">> \o Qualified(public, c.args.table_name)
                \o <<" created successfully with ", IntStr(c.args.vector_dimensions[1]), "D ">>
                \o Embedding \o <<" column">>
      [] c.op = "Vector.vector_similarity_search" ->
            <<"Vector similarity search completed, found ", IntStr(n), " results">>
      [] c.op = "Vector.vector_knn_search" ->
            <<"Vector KNN search completed, found ", IntStr(n), " nearest neighbors">>
      [] c.op = "Vector.create_vector_index" ->
            <<"Vector index ">>
                \o (IF c.args.index_name = Nothing
                    THEN <<"idx_">> \o c.args.table_name \o <<"_">> \o Embedding
                            \o <<"_", c.args.index_type>>
                    ELSE c.args.index_name[1])
                \o <<" created successfully using ", c.args.index_type>>
      [] c.op = "Vector.get_vector_index_stats" ->
            <<"Vector index statistics retrieved for ">> \o Qualified(public, c.args.table_name)
      [] c.op = "Vector.optimize_vector_index" ->
            <<"Vector index ">> \o Qualified(public, c.args.index_name)
                \o <<" optimized successfully">>

\* the result built after the single execution of a non-insert operation
Success(c, rows) ==
    IF c.op \in QueryOps
    THEN QueryResult(TRUE, SuccessMessage(c, Len(Cells(rows))), Cells(rows))
    ELSE IF c.op \in ModifyOps
    THEN OperationResult(TRUE, SuccessMessage(c, AffectedRows(rows)),
                         Some(AffectedRows(rows)), Cells(rows))
    ELSE OperationResult(TRUE, SuccessMessage(c, 0), Nothing, <<>>)

\* InsertStep with returned_data assigned instead of extended
InsertStepOverwrite(affected, returned, rows, returning_columns) ==
    [affected_rows |-> affected + 1,
     returned_data |-> IF ResultTruthy(rows) /\ returning_columns # <<>>
                       THEN rows[1] ELSE returned]

\* the insert loop body after execute_query returned
InsertStep(affected, returned, rows, returning_columns) ==
    [affected_rows |-> affected + 1,
     returned_data |-> IF ResultTruthy(rows) /\ returning_columns # <<>>
                       THEN returned \o rows[1] ELSE returned]

\* NextRecord stepping over a record
NextRecordSkip(i) == i + 2

\* for row in data: the index of the record after record i
NextRecord(i) == i + 1

\* the result of an insert once the loop has ended
InsertSuccess(c, affected, returned) ==
    OperationResult(TRUE,
                    <<"Successfully inserted ", IntStr(affected),
                      IF c.op = "Vector.insert_vector_data" THEN " vector record(s) into "
                      ELSE " record(s) into ">> \o Qualified(public, c.args.table_name),
                    Some(affected), returned)

\* the rows an insert operation loops over
InsertRows(c) ==
    IF c.op = "Vector.insert_vector_data"
    THEN vector_data_rows(c.args.vectors, c.args.vector_column, c.args.additional_data)
    ELSE c.args.data

\* the parameters of the execution for record i
InsertParams(c, i) ==
    IF c.op = "Vector.insert_vector_data"
    THEN vector_insert_params(keys(InsertRows(c)[1]), InsertRows(c)[i], c.args.vector_column)
    ELSE Simple_insert_params(keys(InsertRows(c)[1]), InsertRows(c)[i])

\* sql.as_string(self.sql_driver.conn.pool._conninfo) on a Composed: what
\* psycopg and the pool do with it is outside the engine, so it may succeed
\* or raise
as_string(b, ok) ==
    IF b.err # NoError \/ ok THEN b
    ELSE Built(Raise(<<"as_string">>), <<>>, <<>>)

\* the same call on the str that _build_insert_sql returns
str_as_string(b) ==
    IF b.err # NoError THEN b
    ELSE Built(Raise(<<"'str' object has no attribute 'as_string'">>), <<>>, <<>>)

(***************************************************************************)
(* The driver: execute(statement, parameters) -> rows, or raises           *)
(***************************************************************************)
Verb(sql) == sql[1].v[1]

CountsRows(sql) == Verb(sql) \in {"UPDATE ", "DELETE FROM ", "SELECT "}

\* rows come back only from a SELECT or from a statement with RETURNING;
\* n is the number of rows the statement matched
DriverRows(s, n, dbsize) ==
    IF Verb(s.sql) = "SELECT " THEN Some([i \in 1..n |-> i])
    ELSE IF ~HasKw(s.sql, " RETURNING ") THEN Nothing
    ELSE IF Verb(s.sql) = "INSERT INTO " THEN Some(<<dbsize + 1>>)
    ELSE IF Verb(s.sql) \in {"UPDATE ", "DELETE FROM "} THEN Some([i \in 1..n |-> i])
    ELSE Nothing

\* no call has been made yet
NoCall ==
    /\ pc = "idle"
    /\ call = [op |-> "none", args |-> <<>>]
    /\ stmt = Statement(<<>>, <<>>)
    /\ idx = 0
    /\ affected_rows = 0
    /\ returned_data = <<>>
    /\ result = NoResult
    /\ escaped = FALSE
    /\ sent = <<>>
    /\ got = <<>>
    /\ db = <<>>
    /\ modified = Nothing
    /\ raised = Nothing

Catalog(schemas, indexes) == [schemas |-> schemas, indexes |-> indexes]

NoTool == [name |-> "none", args |-> <<>>, pc |-> "idle"]

\* the keys a success response of the record tools carries
ResponseDict(ok, message, affected, rows) ==
    [success |-> ok, message |-> message, affected_rows |-> affected, rows |-> rows]

NoDict == ResponseDict(FALSE, <<>>, Nothing, <<>>)

\* [types.TextContent(type="text", text=str(text))]: the text is a string,
\* given by its parts, or the rendering of a dict
format_text_response(parts, dict) == [type |-> "text", parts |-> parts, dict |-> dict]

\* f"Error: {error}"
format_error_response(error) == format_text_response(<<"Error: ">> \o error, NoDict)

NoResponse == [type |-> "none", parts |-> <<>>, dict |-> NoDict]

\* the server module has just been loaded
ServerIdle ==
    /\ tool = NoTool
    /\ response = NoResponse
    /\ shutdown_in_progress = FALSE
    /\ shutdowns = <<>>
    /\ closes = 0
    /\ exit_status = Nothing

Init ==
    /\ NoCall
    /\ catalog = Catalog({}, {})
    /\ history = <<>>
    /\ tasks = <<>>
    /\ ServerIdle

\* a public operation is entered: b is what building the statement gave
Enter(op, args, b) ==
    /\ pc = "idle"
    /\ call' = [op |-> op, args |-> args]
    /\ idx' = 1
    /\ IF b.err # NoError
       THEN /\ result' = Catch(op, b.err[1]).result
            /\ escaped' = Catch(op, b.err[1]).escaped
            /\ pc' = "done"
            /\ stmt' = stmt
       ELSE /\ pc' = "await"
            /\ stmt' = Statement(b.sql, b.params)
            /\ UNCHANGED <<result, escaped>>
    /\ UNCHANGED <<affected_rows, returned_data, sent, got, db, modified, raised>>
    /\ UNCHANGED <<sessionVars, otherVars>>

\* the operation is called directly on the engine object
Begin(op, args, b) == Enter(op, args, b) /\ UNCHANGED serverVars

(***************************************************************************)
(* Public operations                                                       *)
(***************************************************************************)
Simple_create_table ==
    /\ pc = "idle"
    /\ \E table_def \in TableDefs :
           Begin("Simple.create_table", [table_def |-> table_def],
                 Simple_create_table_sql(table_def))

\* CrudOperations.create_table passes the str of _build_create_table_sql on
Crud_create_table ==
    /\ pc = "idle"
    /\ \E table_def \in TableDefs :
           Begin("Crud.create_table", [table_def |-> table_def],
                 _build_create_table_sql(table_def))

Simple_insert_records ==
    /\ pc = "idle"
    /\ \E table_name \in Names, data \in DataLists, returning_columns \in ReturningLists :
           LET b == Simple_insert_sql(table_name, data, public, returning_columns)
           IN  Begin("Simple.insert_records",
                     [table_name |-> table_name, data |-> data,
                      returning_columns |-> returning_columns],
                     IF b.err # NoError THEN b
                     ELSE Built(NoError, b.sql, Simple_insert_params(keys(data[1]), data[1])))

Crud_insert_records ==
    /\ pc = "idle"
    /\ \E table_name \in Names, data \in DataLists, returning_columns \in ReturningLists :
           Begin("Crud.insert_records",
                 [table_name |-> table_name, data |-> data,
                  returning_columns |-> returning_columns],
                 str_as_string(_build_insert_sql(table_name, data, public, returning_columns)))

Simple_query_records ==
    /\ pc = "idle"
    /\ \E table_name \in Names, columns \in {<<>>, <<ColA>>}, conditions \in ConditionLists,
          options \in OptionsPool :
           Begin("Simple.query_records",
                 [table_name |-> table_name, columns |-> columns, conditions |-> conditions,
                  options |-> options],
                 Simple_query_sql(table_name, columns, conditions, options, public))

Crud_query_records ==
    /\ pc = "idle"
    /\ \E table_name \in Names, columns \in {<<>>, <<ColA>>}, conditions \in ConditionLists,
          options \in OptionsPool, ok \in BOOLEAN :
           Begin("Crud.query_records",
                 [table_name |-> table_name, columns |-> columns, conditions |-> conditions,
                  options |-> options],
                 as_string(_build_select_sql(table_name, columns, conditions, options, public), ok))

Simple_update_records ==
    /\ pc = "idle"
    /\ \E table_name \in Names, data \in UpdateData, conditions \in ConditionLists,
          returning_columns \in ReturningLists :
           Begin("Simple.update_records",
                 [table_name |-> table_name, data |-> data, conditions |-> conditions,
                  returning_columns |-> returning_columns],
                 Simple_update_sql(table_name, data, conditions, public, returning_columns))

Crud_update_records ==
    /\ pc = "idle"
    /\ \E table_name \in Names, data \in UpdateData, conditions \in ConditionLists,
          returning_columns \in ReturningLists, ok \in BOOLEAN :
           Begin("Crud.update_records",
                 [table_name |-> table_name, data |-> data, conditions |-> conditions,
                  returning_columns |-> returning_columns],
                 as_string(_build_update_sql(table_name, data, conditions, public,
                                             returning_columns), ok))

Simple_delete_records ==
    /\ pc = "idle"
    /\ \E table_name \in Names, conditions \in ConditionLists,
          returning_columns \in ReturningLists :
           Begin("Simple.delete_records",
                 [table_name |-> table_name, conditions |-> conditions,
                  returning_columns |-> returning_columns],
                 Simple_delete_sql(table_name, conditions, public, returning_columns))

Crud_delete_records ==
    /\ pc = "idle"
    /\ \E table_name \in Names, conditions \in ConditionLists,
          returning_columns \in ReturningLists, ok \in BOOLEAN :
           Begin("Crud.delete_records",
                 [table_name |-> table_name, conditions |-> conditions,
                  returning_columns |-> returning_columns],
                 as_string(_build_delete_sql(table_name, conditions, public, returning_columns),
                           ok))

\* composed = FALSE: SimpleSchemaOperations; composed = TRUE: SchemaOperations
create_schema ==
    /\ pc = "idle"
    /\ \E schema_name \in Names, if_not_exists \in BOOLEAN, composed \in BOOLEAN,
          ok \in BOOLEAN :
           Begin("create_schema",
                 [schema_name |-> schema_name, if_not_exists |-> if_not_exists,
                  composed |-> composed],
                 as_string(Built(NoError, create_schema_sql(schema_name, if_not_exists, composed),
                                 <<>>),
                           ok \/ ~composed))

drop_schema ==
    /\ pc = "idle"
    /\ \E schema_name \in Names, cascade \in BOOLEAN, if_exists \in BOOLEAN,
          composed \in BOOLEAN, ok \in BOOLEAN :
           Begin("drop_schema",
                 [schema_name |-> schema_name, cascade |-> cascade, if_exists |-> if_exists,
                  composed |-> composed],
                 as_string(Built(NoError, drop_schema_sql(schema_name, cascade, if_exists, composed),
                                 <<>>),
                           ok \/ ~composed))

create_index ==
    /\ pc = "idle"
    /\ \E index_def \in IndexDefs, composed \in BOOLEAN, ok \in BOOLEAN :
           Begin("create_index", [index_def |-> index_def, composed |-> composed],
                 as_string(Built(NoError,
                                 IF composed THEN Schema_create_index_sql(index_def)
                                 ELSE Simple_create_index_sql(index_def, public),
                                 <<>>),
                           ok \/ ~composed))

drop_index ==
    /\ pc = "idle"
    /\ \E index_name \in Names, if_exists \in BOOLEAN, cascade \in BOOLEAN,
          composed \in BOOLEAN, ok \in BOOLEAN :
           Begin("drop_index",
                 [index_name |-> index_name, if_exists |-> if_exists, cascade |-> cascade,
                  composed |-> composed],
                 as_string(Built(NoError, drop_index_sql(index_name, if_exists, cascade, composed),
                                 <<>>),
                           ok \/ ~composed))

drop_table ==
    /\ pc = "idle"
    /\ \E table_name \in Names, cascade \in BOOLEAN, if_exists \in BOOLEAN,
          composed \in BOOLEAN, ok \in BOOLEAN :
           Begin("drop_table",
                 [table_name |-> table_name, cascade |-> cascade, if_exists |-> if_exists,
                  composed |-> composed],
                 as_string(Built(NoError,
                                 drop_table_sql(table_name, public, cascade, if_exists, composed),
                                 <<>>),
                           ok \/ ~composed))

create_extension ==
    /\ pc = "idle"
    /\ \E extension_name \in Names, if_not_exists \in BOOLEAN, schema \in {Nothing, Some(public)},
          composed \in BOOLEAN, ok \in BOOLEAN :
           Begin("create_extension",
                 [extension_name |-> extension_name, if_not_exists |-> if_not_exists,
                  schema |-> schema, composed |-> composed],
                 as_string(Built(NoError,
                                 create_extension_sql(extension_name, if_not_exists, schema,
                                                      composed),
                                 <<>>),
                           ok \/ ~composed))

create_vector_table ==
    /\ pc = "idle"
    /\ \E table_name \in Names, vector_dimensions \in {Nothing, Some(3)},
          additional_columns \in ColumnLists :
           Begin("Vector.create_vector_table",
                 [table_name |-> table_name, vector_dimensions |-> vector_dimensions,
                  additional_columns |-> additional_columns],
                 create_vector_table_sql(table_name, public, Embedding, vector_dimensions,
                                         additional_columns))

vector_similarity_search ==
    /\ pc = "idle"
    /\ \E table_name \in Names, search_options \in SearchOptionsPool,
          additional_columns \in {<<>>, <<ColA>>} :
           Begin("Vector.vector_similarity_search",
                 [table_name |-> table_name, search_options |-> search_options,
                  additional_columns |-> additional_columns],
                 vector_similarity_search_sql(table_name, public, Embedding, search_options,
                                              additional_columns))

vector_knn_search ==
    /\ pc = "idle"
    /\ \E table_name \in Names, search_vector \in Vectors, k \in {0, 3},
          distance_function \in DistanceFunctions, additional_columns \in {<<>>, <<ColA>>},
          include_distance \in BOOLEAN :
           Begin("Vector.vector_knn_search",
                 [table_name |-> table_name, search_vector |-> search_vector, k |-> k,
                  distance_function |-> distance_function,
                  additional_columns |-> additional_columns,
                  include_distance |-> include_distance],
                 vector_knn_search_sql(table_name, public, Embedding, search_vector, k,
                                       distance_function, additional_columns, include_distance))

create_vector_index ==
    /\ pc = "idle"
    /\ \E table_name \in Names, index_name \in {Nothing, Some(Quoted)},
          index_type \in IndexTypes, index_options \in IndexOptions :
           Begin("Vector.create_vector_index",
                 [table_name |-> table_name, index_name |-> index_name,
                  index_type |-> index_type, index_options |-> index_options],
                 Built(NoError,
                       create_vector_index_sql(table_name, public, Embedding, index_name,
                                               index_type, index_options),
                       <<>>))

insert_vector_data ==
    /\ pc = "idle"
    /\ \E table_name \in Names, vectors \in VectorLists, additional_data \in AdditionalData,
          returning_columns \in ReturningLists :
           LET b == vector_insert_sql(table_name, vectors, public, Embedding, additional_data,
                                      returning_columns)
               rows == vector_data_rows(vectors, Embedding, additional_data)
           IN  Begin("Vector.insert_vector_data",
                     [table_name |-> table_name, vectors |-> vectors,
                      vector_column |-> Embedding, additional_data |-> additional_data,
                      returning_columns |-> returning_columns],
                     IF b.err # NoError THEN b
                     ELSE Built(NoError, b.sql,
                                vector_insert_params(keys(rows[1]), rows[1], Embedding)))

get_vector_index_stats ==
    /\ pc = "idle"
    /\ \E table_name \in Names :
           LET s == get_vector_index_stats_sql(table_name, public, Embedding)
           IN  Begin("Vector.get_vector_index_stats", [table_name |-> table_name],
                     Built(NoError, s.sql, s.params))

optimize_vector_index ==
    /\ pc = "idle"
    /\ \E index_name \in Names :
           Begin("Vector.optimize_vector_index", [index_name |-> index_name],
                 Built(NoError, optimize_vector_index_sql(index_name, public), <<>>))

(***************************************************************************)
(* The awaited execute_query completes                                     *)
(***************************************************************************)
\* the driver raises: the except block of the operation builds the result
DriverRaises ==
    \E e \in DriverErrors :
        /\ pc = "await"
        /\ sent' = Append(sent, stmt)
        /\ raised' = Some(e)
        /\ result' = Catch(call.op, e).result
        /\ escaped' = Catch(call.op, e).escaped
        /\ pc' = "done"
        /\ UNCHANGED <<call, stmt, idx, affected_rows, returned_data, got, db, modified>>
        /\ UNCHANGED <<sessionVars, otherVars, serverVars>>

\* the driver applies the statement and returns; n rows matched
DriverReturns ==
    \E n \in 0..MaxRows :
        /\ pc = "await"
        /\ CountsRows(stmt.sql) \/ n = 0
        /\ LET rows == DriverRows(stmt, n, Len(db))
           IN  /\ sent' = Append(sent, stmt)
               /\ got' = Append(got, rows)
               /\ db' = IF Verb(stmt.sql) = "INSERT INTO " THEN Append(db, stmt.params) ELSE db
               /\ modified' = IF Verb(stmt.sql) \in {"UPDATE ", "DELETE FROM "}
                              THEN Some(n) ELSE modified
               /\ IF call.op \in InsertOps
                  THEN LET step == InsertStep(affected_rows, returned_data, rows,
                                              call.args.returning_columns)
                           next == NextRecord(idx)
                       IN  /\ affected_rows' = step.affected_rows
                           /\ returned_data' = step.returned_data
                           /\ idx' = next
                           /\ IF next <= Len(InsertRows(call))
                              THEN /\ stmt' = Statement(stmt.sql, InsertParams(call, next))
                                   /\ pc' = "await"
                                   /\ UNCHANGED result
                              ELSE /\ result' = InsertSuccess(call, step.affected_rows,
                                                              step.returned_data)
                                   /\ pc' = "done"
                                   /\ UNCHANGED stmt
                  ELSE /\ result' = Success(call, rows)
                       /\ pc' = "done"
                       /\ UNCHANGED <<stmt, idx, affected_rows, returned_data>>
        /\ UNCHANGED <<call, escaped, raised>>
        /\ UNCHANGED <<sessionVars, otherVars, serverVars>>

Next ==
    \/ Simple_create_table
    \/ Crud_create_table
    \/ Simple_insert_records
    \/ Crud_insert_records
    \/ Simple_query_records
    \/ Crud_query_records
    \/ Simple_update_records
    \/ Crud_update_records
    \/ Simple_delete_records
    \/ Crud_delete_records
    \/ create_schema
    \/ drop_schema
    \/ create_index
    \/ drop_index
    \/ drop_table
    \/ create_extension
    \/ create_vector_table
    \/ vector_similarity_search
    \/ vector_knn_search
    \/ create_vector_index
    \/ insert_vector_data
    \/ get_vector_index_stats
    \/ optimize_vector_index
    \/ DriverRaises
    \/ DriverReturns

Spec == Init /\ [][Next]_vars

(***************************************************************************)
(* A session of schema calls against a database catalog                    *)
(***************************************************************************)
\* the characters between the outer quotes of a rendered identifier
Inner(piece) == SubSeq(piece.v, 2, Len(piece.v) - 1)

RECURSIVE QuotesPaired(_)
\* inside a quoted identifier a double quote must be followed by another
QuotesPaired(text) ==
    IF text = <<>> THEN TRUE
    ELSE IF Head(text) # DQ THEN QuotesPaired(Tail(text))
    ELSE Len(text) >= 2 /\ text[2] = DQ /\ QuotesPaired(SubSeq(text, 3, Len(text)))

RECURSIVE Undoubled(_)
\* the name a quoted identifier denotes: two quotes stand for one
Undoubled(text) ==
    IF text = <<>> THEN <<>>
    ELSE IF Len(text) >= 2 /\ text[1] = DQ /\ text[2] = DQ
    THEN <<DQ>> \o Undoubled(SubSeq(text, 3, Len(text)))
    ELSE <<Head(text)>> \o Undoubled(Tail(text))

\* the database can read the statement: every identifier is well quoted
Parses(sql) == \A j \in 1..Len(sql) : sql[j].k = "id" => QuotesPaired(Inner(sql[j]))

\* the object a CREATE SCHEMA or DROP INDEX statement names
Target(sql) == Undoubled(Inner(sql[CHOOSE j \in 1..Len(sql) : sql[j].k = "id"]))

\* the error the database answers a statement with, if any
DatabaseError(sql, cat) ==
    IF ~Parses(sql) THEN Some(<<"syntax error">>)
    ELSE IF Verb(sql) = "CREATE SCHEMA " /\ Target(sql) \in cat.schemas
    THEN Some(<<"schema already exists">>)
    ELSE IF Verb(sql) = "DROP INDEX" /\ ~HasKw(sql, " IF EXISTS")
            /\ Target(sql) \notin cat.indexes
    THEN Some(<<"index does not exist">>)
    ELSE Nothing

\* the catalog after the database applied a statement it accepted
Applied(sql, cat) ==
    IF Verb(sql) \in {"CREATE SCHEMA ", "CREATE SCHEMA IF NOT EXISTS "}
    THEN Catalog(cat.schemas \cup {Target(sql)}, cat.indexes)
    ELSE IF Verb(sql) = "DROP INDEX"
    THEN Catalog(cat.schemas, cat.indexes \ {Target(sql)})
    ELSE cat

Completed(c, ok, cat) == [call |-> c, success |-> ok, catalog |-> cat]

Catalogs == {Catalog(schemas, indexes) : schemas \in SUBSET Names, indexes \in SUBSET Names}

InitCatalog ==
    /\ NoCall
    /\ tasks = <<>>
    /\ ServerIdle
    /\ catalog \in Catalogs
    /\ history = <<Completed([op |-> "none", args |-> <<>>], TRUE, catalog)>>

\* the awaited execute_query completes against the catalog: the statement
\* is refused with an error or applied
DatabaseExecutes ==
    /\ pc = "await"
    /\ sent' = Append(sent, stmt)
    /\ LET e == DatabaseError(stmt.sql, catalog)
       IN  IF e # Nothing
           THEN /\ raised' = e
                /\ result' = Catch(call.op, e[1]).result
                /\ UNCHANGED <<got, catalog>>
           ELSE /\ got' = Append(got, Nothing)
                /\ result' = Success(call, Nothing)
                /\ catalog' = Applied(stmt.sql, catalog)
                /\ UNCHANGED raised
    /\ pc' = "done"
    /\ UNCHANGED <<call, stmt, idx, affected_rows, returned_data, escaped, db, modified, history>>
    /\ UNCHANGED <<otherVars, serverVars>>

\* the caller takes the result and makes its next call
NextCall ==
    /\ pc = "done"
    /\ Len(history) < MaxCalls
    /\ history' = Append(history, Completed(call, result.success, catalog))
    /\ pc' = "idle"
    /\ stmt' = Statement(<<>>, <<>>)
    /\ idx' = 0
    /\ result' = NoResult
    /\ sent' = <<>>
    /\ got' = <<>>
    /\ raised' = Nothing
    /\ UNCHANGED <<call, affected_rows, returned_data, escaped, db, modified, catalog>>
    /\ UNCHANGED <<otherVars, serverVars>>

NextCatalog ==
    \/ create_schema
    \/ drop_index
    \/ DatabaseExecutes
    \/ NextCall

SpecCatalog == InitCatalog /\ [][NextCatalog]_vars

(***************************************************************************)
(* Two insert_records calls that interleave at every await                 *)
(***************************************************************************)
Callers == {1, 2}

TaskRecords == {<<Item(ColA, IntV(1))>>, <<Item(ColB, IntV(3))>>}

TaskData == SeqsUpTo(TaskRecords, MaxBatch)

\* the frame of one call: its arguments and its local variables; answers
\* and inserted record what the driver gave this call
Task(data, returning_columns) ==
    [pc |-> "idle",
     args |-> [table_name |-> Plain, data |-> data, returning_columns |-> returning_columns],
     stmt |-> Statement(<<>>, <<>>), idx |-> 0, affected_rows |-> 0, returned_data |-> <<>>,
     result |-> NoResult, raised |-> Nothing, answers |-> <<>>, inserted |-> {}]

InitConcurrent ==
    /\ NoCall
    /\ catalog = Catalog({}, {})
    /\ history = <<>>
    /\ tasks \in [Callers -> {Task(data, returning_columns) :
                                data \in TaskData, returning_columns \in ReturningLists}]
    /\ ServerIdle

\* affected_rows and returned_data of every call live in the first frame
FrameShared(t, p) == t[1]

\* returned_data = [] and affected_rows = 0 are locals of the call
Frame(t, p) == t[p]

\* the call builds its statement, up to the first await
TaskBegin(p) ==
    /\ tasks[p].pc = "idle"
    /\ LET a == tasks[p].args
           b == Simple_insert_sql(a.table_name, a.data, public, a.returning_columns)
       IN  tasks' = [tasks EXCEPT ![p] =
                IF b.err # NoError
                THEN [@ EXCEPT !.pc = "done",
                               !.result = Catch("Simple.insert_records", b.err[1]).result]
                ELSE [@ EXCEPT !.pc = "await", !.idx = 1,
                               !.stmt = Statement(b.sql,
                                                  Simple_insert_params(keys(a.data[1]),
                                                                       a.data[1]))]]
    /\ UNCHANGED <<callVars, sessionVars, serverVars>>

\* the awaited execute_query of call p returns
TaskDriverReturns(p) ==
    /\ tasks[p].pc = "await"
    /\ LET me == Frame(tasks, p)
           a == tasks[p].args
           rows == DriverRows(tasks[p].stmt, 0, Len(db))
           step == InsertStep(me.affected_rows, me.returned_data, rows, a.returning_columns)
           next == NextRecord(tasks[p].idx)
           seen == [tasks[p] EXCEPT !.affected_rows = step.affected_rows,
                                    !.returned_data = step.returned_data,
                                    !.idx = next,
                                    !.answers = Append(@, rows),
                                    !.inserted = @ \cup {Len(db) + 1}]
       IN  /\ db' = Append(db, tasks[p].stmt.params)
           /\ sent' = Append(sent, tasks[p].stmt)
           /\ tasks' = [tasks EXCEPT ![p] =
                    IF next <= Len(a.data)
                    THEN [seen EXCEPT !.stmt =
                              Statement(@.sql, Simple_insert_params(keys(a.data[1]),
                                                                    a.data[next]))]
                    ELSE [seen EXCEPT !.pc = "done",
                                      !.result = InsertSuccess([op |-> "Simple.insert_records",
                                                                args |-> a],
                                                               step.affected_rows,
                                                               step.returned_data)]]
    /\ UNCHANGED <<pc, call, stmt, idx, affected_rows, returned_data, result, escaped, got,
                   modified, raised>>
    /\ UNCHANGED <<sessionVars, serverVars>>

\* the awaited execute_query of call p raises
TaskDriverRaises(p) ==
    /\ tasks[p].pc = "await"
    /\ \E e \in DriverErrors :
          tasks' = [tasks EXCEPT ![p] =
                       [@ EXCEPT !.pc = "done", !.raised = Some(e),
                                 !.result = Catch("Simple.insert_records", e).result]]
    /\ sent' = Append(sent, tasks[p].stmt)
    /\ UNCHANGED <<pc, call, stmt, idx, affected_rows, returned_data, result, escaped, got, db,
                   modified, raised>>
    /\ UNCHANGED <<sessionVars, serverVars>>

NextConcurrent ==
    \/ \E p \in Callers : TaskBegin(p)
    \/ \E p \in Callers : TaskDriverReturns(p)
    \/ \E p \in Callers : TaskDriverRaises(p)

SpecConcurrent == InitConcurrent /\ [][NextConcurrent]_vars

(***************************************************************************)
(* The record tools of the server                                          *)
(***************************************************************************)
\* the names the server module binds at import time that the record tools use
ModuleGlobals ==
    {"SimpleCrudOperations", "SchemaOperations", "VectorOperations", "ColumnDefinition",
     "DataType", "IndexDefinition", "QueryCondition", "QueryOptions", "TableDefinition",
     "VectorSearchOptions"}

\* a name used in a tool body is looked up among the module's globals
Resolves(name) == name \in ModuleGlobals

\* str(NameError) for a global that is not bound
NameError(name) == <<"name '", name, "' is not defined">>

\* a condition of a request: 'value' and 'logical_operator' may be missing
CondDict(column, operator, value, logical_operator) ==
    [column |-> column, operator |-> operator, value |-> value,
     logical_operator |-> logical_operator]

\* QueryCondition(column=cond["column"], operator=cond["operator"],
\*                value=cond.get("value"),
\*                logical_operator=cond.get("logical_operator", "AND"))
ToQueryCondition(cond) ==
    QueryCondition(cond.column, cond.operator,
                   IF cond.value = Nothing THEN None ELSE cond.value[1],
                   IF cond.logical_operator = Nothing THEN "AND"
                   ELSE cond.logical_operator[1])

\* for cond in conditions: query_conditions.append(...)
ToQueryConditions(conditions) ==
    [i \in 1..Len(conditions) |-> ToQueryCondition(conditions[i])]

CondDictPool ==
    {CondDict(c.column, c.operator, Some(c.value), Some(c.logical_operator)) :
        c \in ConditionPool}
    \cup {CondDict(Age, ">", Some(IntV(25)), Nothing),
          CondDict(ColA, "is null", Nothing, Some("OR"))}

CondDictLists == SeqsUpTo(CondDictPool, MaxConds)

\* order_by, limit and offset of a query request
OrderLimitPool ==
    {o[1] : o \in {x \in OptionsPool : x # Nothing /\ x[1].group_by = <<>> /\ x[1].having = <<>>}}

\* the body of a tool from the construction of the engine object to the
\* call of the engine: an unbound class name raises NameError inside the
\* try block, and except Exception returns format_error_response(str(e))
Dispatch(name, class, args, op, b) ==
    /\ tool.pc = "idle"
    /\ IF Resolves(class)
       THEN /\ Enter(op, args, b)
            /\ tool' = [name |-> name, args |-> args, pc |-> "engine"]
            /\ UNCHANGED <<response, shutdownVars>>
       ELSE /\ tool' = [name |-> name, args |-> args, pc |-> "done"]
            /\ response' = format_error_response(NameError(class))
            /\ UNCHANGED <<callVars, sessionVars, otherVars, shutdownVars>>

Tool_insert_records ==
    /\ pc = "idle"
    /\ tool.pc = "idle"
    /\ \E table_name \in Names, data \in DataLists, returning_columns \in ReturningLists :
           LET args == [table_name |-> table_name, data |-> data,
                        returning_columns |-> returning_columns]
               b == Simple_insert_sql(table_name, data, public, returning_columns)
           IN  IF data = <<>>
               THEN /\ tool' = [name |-> "insert_records", args |-> args, pc |-> "done"]
                    /\ response' = format_error_response(<<"No data provided for insert">>)
                    /\ UNCHANGED <<callVars, sessionVars, otherVars, shutdownVars>>
               ELSE Dispatch("insert_records", "SimpleCrudOperations", args,
                             "Simple.insert_records",
                             IF b.err # NoError THEN b
                             ELSE Built(NoError, b.sql,
                                        Simple_insert_params(keys(data[1]), data[1])))

Tool_update_records ==
    /\ pc = "idle"
    /\ tool.pc = "idle"
    /\ \E table_name \in Names, data \in UpdateData, conditions \in CondDictLists,
          returning_columns \in ReturningLists, ok \in BOOLEAN :
           LET query_conditions == ToQueryConditions(conditions)
           IN  Dispatch("update_records", "CrudOperations",
                        [table_name |-> table_name, data |-> data,
                         conditions |-> query_conditions,
                         returning_columns |-> returning_columns],
                        "Crud.update_records",
                        as_string(_build_update_sql(table_name, data, query_conditions, public,
                                                    returning_columns), ok))

Tool_delete_records ==
    /\ pc = "idle"
    /\ tool.pc = "idle"
    /\ \E table_name \in Names, conditions \in CondDictLists,
          returning_columns \in ReturningLists, ok \in BOOLEAN :
           LET query_conditions == ToQueryConditions(conditions)
           IN  Dispatch("delete_records", "CrudOperations",
                        [table_name |-> table_name, conditions |-> query_conditions,
                         returning_columns |-> returning_columns],
                        "Crud.delete_records",
                        as_string(_build_delete_sql(table_name, query_conditions, public,
                                                    returning_columns), ok))

Tool_query_records ==
    /\ pc = "idle"
    /\ tool.pc = "idle"
    /\ \E table_name \in Names, columns \in {<<>>, <<ColA>>}, conditions \in CondDictLists,
          o \in OrderLimitPool, ok \in BOOLEAN :
           LET query_conditions == ToQueryConditions(conditions)
               options == Some(QueryOptions(o.limit, o.offset, o.order_by, <<>>, <<>>))
           IN  Dispatch("query_records", "CrudOperations",
                        [table_name |-> table_name, columns |-> columns,
                         conditions |-> query_conditions, options |-> options],
                        "Crud.query_records",
                        as_string(_build_select_sql(table_name, columns, query_conditions,
                                                    options, public), ok))

\* the engine call returned: a success response from a success result,
\* format_error_response(result.message) otherwise
Respond ==
    /\ tool.pc = "engine"
    /\ pc = "done"
    /\ response' = IF result.success
                   THEN format_text_response(<<>>, ResponseDict(TRUE, result.message,
                                                                result.affected_rows,
                                                                result.returned_data))
                   ELSE format_error_response(result.message)
    /\ tool' = [tool EXCEPT !.pc = "done"]
    /\ UNCHANGED <<callVars, sessionVars, otherVars, shutdownVars>>

NextTools ==
    \/ Tool_insert_records
    \/ Tool_update_records
    \/ Tool_delete_records
    \/ Tool_query_records
    \/ DriverRaises
    \/ DriverReturns
    \/ Respond

SpecTools == Init /\ [][NextTools]_vars

(***************************************************************************)
(* Shutdown of the server                                                  *)
(***************************************************************************)
SIGINT == 2
SIGTERM == 15

\* what shutdown() is called with: a handled signal, or nothing
Sigs == {Nothing, Some(SIGINT), Some(SIGTERM)}

\* a shutdown() task: close is "none" until the task invokes
\* db_connection.close(), then "pending", then "returned" or "raised"
ShutdownTask(sig) == [sig |-> sig, pc |-> "scheduled", close |-> "none"]

\* 128 + sig if sig is not None else 0
ExitCode(sig) == IF sig # Nothing THEN 128 + sig[1] ELSE 0

\* shutdown() without the test of the flag
StartUnguarded(flag) == [exit |-> Nothing, flag |-> TRUE, close |-> TRUE]

\* shutdown() from its first line to its first await: with the flag set it
\* exits with status 1, otherwise it sets the flag and invokes close()
Start(flag) ==
    IF flag THEN [exit |-> Some(1), flag |-> flag, close |-> FALSE]
    ELSE [exit |-> Nothing, flag |-> TRUE, close |-> TRUE]

\* asyncio.create_task(shutdown(s)): the task is queued and runs later
Schedule ==
    /\ exit_status = Nothing
    /\ Len(shutdowns) < MaxShutdowns
    /\ \E sig \in Sigs : shutdowns' = Append(shutdowns, ShutdownTask(sig))
    /\ UNCHANGED <<shutdown_in_progress, closes, exit_status>>
    /\ UNCHANGED <<callVars, sessionVars, otherVars, toolVars>>

\* the event loop runs the oldest task that has not started, up to its
\* first await or its exit
ShutdownStarts ==
    /\ exit_status = Nothing
    /\ \E t \in 1..Len(shutdowns) :
          /\ shutdowns[t].pc = "scheduled"
          /\ \A u \in 1..(t - 1) : shutdowns[u].pc # "scheduled"
          /\ LET step == Start(shutdown_in_progress)
             IN  /\ shutdown_in_progress' = step.flag
                 /\ exit_status' = step.exit
                 /\ closes' = IF step.close THEN closes + 1 ELSE closes
                 /\ shutdowns' = [shutdowns EXCEPT ![t] =
                                     [sig |-> @.sig,
                                      pc |-> IF step.exit # Nothing THEN "exited" ELSE "closing",
                                      close |-> IF step.close THEN "pending" ELSE "none"]]
    /\ UNCHANGED <<callVars, sessionVars, otherVars, toolVars>>

\* close() is over, by a return or by an exception that is logged; the task
\* goes on to sys.exit
CloseEnds ==
    /\ exit_status = Nothing
    /\ \E t \in 1..Len(shutdowns), how \in {"returned", "raised"} :
          /\ shutdowns[t].pc = "closing"
          /\ shutdowns' = [shutdowns EXCEPT ![t] =
                              [sig |-> @.sig, pc |-> "exited", close |-> how]]
          /\ exit_status' = Some(ExitCode(shutdowns[t].sig))
    /\ UNCHANGED <<shutdown_in_progress, closes>>
    /\ UNCHANGED <<callVars, sessionVars, otherVars, toolVars>>

NextShutdown ==
    \/ Schedule
    \/ ShutdownStarts
    \/ CloseEnds

SpecShutdown == Init /\ [][NextShutdown]_vars

(***************************************************************************)
(* Properties                                                              *)
(***************************************************************************)
Returned == pc = "done"

DriverRaised == Returned /\ Len(got) < Len(sent)

\* C1: every public operation ends by returning a result object that
\* carries a success flag, whatever the input and whatever the driver does
\* (rows, nothing, an exception); no exception leaves the operation.
C1_ResultAlwaysReturned ==
    /\ ~escaped
    /\ Returned => /\ result.kind \in {"OperationResult", "QueryResult"}
                   /\ result.success \in BOOLEAN
                   /\ (DriverRaised => ~result.success)
    /\ ~Returned => result = NoResult

C1_Witness ==
    /\ Returned
    /\ call.op = "Simple.update_records"
    /\ DriverRaised
    /\ result.kind = "OperationResult"
    /\ ~result.success

HasBadIn(conditions) ==
    \E i \in 1..Len(conditions) :
        /\ upper(conditions[i].operator) \in {"IN", "NOT IN"}
        /\ conditions[i].value.t # "list"

\* the validation errors: a vector column without dimensions in
\* create_table, no records in insert_records, an IN / NOT IN value that is
\* no list in query / update / delete, an unsupported distance function in
\* a vector search
ValidationError(c) ==
    \/ /\ c.op \in {"Simple.create_table", "Crud.create_table"}
       /\ \E i \in 1..Len(c.args.table_def.columns) :
             /\ c.args.table_def.columns[i].data_type = "vector"
             /\ c.args.table_def.columns[i].vector_dimensions = Nothing
    \/ /\ c.op \in {"Simple.insert_records", "Crud.insert_records"}
       /\ c.args.data = <<>>
    \/ /\ c.op \in {"Simple.query_records", "Crud.query_records", "Simple.update_records",
                    "Crud.update_records", "Simple.delete_records", "Crud.delete_records"}
       /\ HasBadIn(c.args.conditions)
    \/ /\ c.op = "Vector.vector_similarity_search"
       /\ c.args.search_options # Nothing
       /\ c.args.search_options[1].distance_function
             \notin {"cosine", "euclidean", "inner_product"}
    \/ /\ c.op = "Vector.vector_knn_search"
       /\ c.args.distance_function \notin {"cosine", "euclidean", "inner_product"}

\* C2: an operation given a validation error returns success = false and
\* the driver's execute has not been called during it.
C2_ValidationBeforeDriver ==
    (call.op # "none" /\ ValidationError(call)) =>
        /\ Returned
        /\ ~result.success
        /\ sent = <<>>

C2_Witness ==
    /\ Returned
    /\ call.op = "Simple.delete_records"
    /\ HasBadIn(call.args.conditions)
    /\ ~result.success
    /\ sent = <<>>

\* C3: in every statement handed to the driver the caller's data values
\* (condition values, inserted and updated values, LIMIT, OFFSET, k, the
\* threshold, the query vector) are in the parameter list only, never in
\* the SQL text.
C3_ValuesOnlyInParameters ==
    \A i \in 1..Len(sent) : \A j \in 1..Len(sent[i].sql) : sent[i].sql[j].k # "val"

RECURSIVE ClosingQuote(_, _)
\* the position of the double quote that ends the quoted identifier whose
\* opening quote is chars[1], scanning from i; a doubled quote is an escaped
\* quote; 0 when the identifier is never closed
ClosingQuote(chars, i) ==
    IF i > Len(chars) THEN 0
    ELSE IF chars[i] # DQ THEN ClosingQuote(chars, i + 1)
    ELSE IF i < Len(chars) /\ chars[i + 1] = DQ THEN ClosingQuote(chars, i + 2)
    ELSE i

\* the rendered identifier is one quoted identifier: its last character, and
\* no earlier one, closes it
StaysQuoted(chars) == chars[1] = DQ /\ ClosingQuote(chars, 2) = Len(chars)

\* C4: no builder emits SQL text in which a quote character of an
\* identifier closes the quoted identifier: such an identifier is either
\* rejected before the driver is called or emitted with the quote doubled.
C4_IdentifiersStayQuoted ==
    \A i \in 1..Len(sent) : \A j \in 1..Len(sent[i].sql) :
        sent[i].sql[j].k = "id" => StaysQuoted(sent[i].sql[j].v)

HasEmptyIn(conditions) ==
    \E i \in 1..Len(conditions) :
        /\ upper(conditions[i].operator) \in {"IN", "NOT IN"}
        /\ conditions[i].value = ListV(<<>>)

\* the text contains  IN ()  or  NOT IN ()
ContainsEmptyInList(sql) ==
    \E j \in 1..(Len(sql) - 2) :
        /\ sql[j] \in {Raw("IN"), Raw("NOT IN")}
        /\ sql[j + 1] = Kw(" (")
        /\ sql[j + 2] = Kw(")")

\* C5: query, update and delete given an IN / NOT IN condition over an
\* empty list return a failure result, and no statement containing IN () is
\* sent to the driver.
C5_EmptyInRejected ==
    /\ \A i \in 1..Len(sent) : ~ContainsEmptyInList(sent[i].sql)
    /\ (/\ Returned
        /\ call.op \in {"Simple.query_records", "Simple.update_records",
                        "Simple.delete_records", "Crud.query_records",
                        "Crud.update_records", "Crud.delete_records"}
        /\ HasEmptyIn(call.args.conditions)) => ~result.success

\* C6: after a successful update_records or delete_records the result's
\* affected_rows is the number of rows the statement changed, with or
\* without returning_columns.
C6_AffectedRowsIsRowsChanged ==
    (Returned /\ call.op \in ModifyOps /\ result.success) =>
        result.affected_rows = modified

\* C7: when the driver raises on record k of an insert_records batch the
\* result has success = false and affected_rows = k - 1.
C7_FailureCarriesCount ==
    (call.op = "Simple.insert_records" /\ DriverRaised) =>
        /\ ~result.success
        /\ result.affected_rows = Some(Len(sent) - 1)

BatchInsert == call.op \in {"Simple.insert_records", "Vector.insert_vector_data"}

\* C8: a batch insert sends one parameterized INSERT per record, in
\* submission order and each at most once; when the execution for record k
\* raises nothing is sent for the later records and the k - 1 earlier rows
\* stay in the database.
C8_InsertsInOrderNoRollback ==
    BatchInsert =>
        /\ Len(sent) <= Len(InsertRows(call))
        /\ \A j \in 1..Len(sent) :
              /\ Verb(sent[j].sql) = "INSERT INTO "
              /\ sent[j].params = InsertParams(call, j)
              /\ Len(SelectSeq(sent[j].sql, LAMBDA x : x.k = "ph")) = Len(sent[j].params)
        /\ (Returned /\ result.success) => Len(sent) = Len(InsertRows(call))
        /\ Len(db) = Len(got)
        /\ \A j \in 1..Len(db) : db[j] = sent[j].params
        /\ DriverRaised => /\ Len(db) = Len(sent) - 1
                           /\ ~result.success

C8_Witness ==
    /\ call.op = "Simple.insert_records"
    /\ DriverRaised
    /\ Len(call.args.data) = 2
    /\ call.args.data[1] # call.args.data[2]
    /\ Len(sent) = 2
    /\ db = <<sent[1].params>>

RECURSIVE Concatenated(_)
\* the rows of all executions, one after the other
Concatenated(returns) ==
    IF returns = <<>> THEN <<>>
    ELSE (IF Head(returns) = Nothing THEN <<>> ELSE Head(returns)[1])
         \o Concatenated(Tail(returns))

\* C9: a successful SimpleCrudOperations.insert_records over N records
\* reports affected_rows = N, and with returning_columns its returned_data
\* is the rows of the N executions concatenated in submission order.
C9_InsertAggregates ==
    (Returned /\ call.op = "Simple.insert_records" /\ result.success) =>
        /\ result.affected_rows = Some(Len(call.args.data))
        /\ call.args.returning_columns # <<>> =>
              /\ result.returned_data = Concatenated(got)
              /\ Len(result.returned_data) = Len(call.args.data)
        /\ call.args.returning_columns = <<>> => result.returned_data = <<>>

C9_Witness ==
    /\ Returned
    /\ call.op = "Simple.insert_records"
    /\ result.success
    /\ Len(call.args.data) = 2
    /\ call.args.returning_columns # <<>>
    /\ result.returned_data = <<1, 2>>

\* some record does not have the key set of the first record
KeyMismatch(data) ==
    \E r \in 1..Len(data) :
        {data[r][i].key : i \in 1..Len(data[r])} # {data[1][i].key : i \in 1..Len(data[1])}

\* C10 as stated: a batch whose records do not all have the keys of the
\* first record ends with success = false.
C10_MismatchFails ==
    (Returned /\ call.op = "Simple.insert_records" /\ KeyMismatch(call.args.data)) =>
        ~result.success

\* C10 amended: nothing checks the key sets.  Every record is sent with
\* exactly the columns of the first record, a key the record lacks as NULL
\* and a key outside those columns dropped; with JSON-encodable values the
\* call fails only when the record list is empty or the driver raises.
C10_MismatchProjected ==
    call.op = "Simple.insert_records" =>
        /\ \A j \in 1..Len(sent) :
              LET columns == keys(call.args.data[1])
                  row == call.args.data[j]
              IN  /\ Len(sent[j].params) = Len(columns)
                  /\ \A i \in 1..Len(columns) :
                        IF HasKey(row, columns[i])
                        THEN sent[j].params[i].n = get(row, columns[i]).n
                             /\ sent[j].params[i].items = get(row, columns[i]).items
                        ELSE sent[j].params[i] = None
        /\ (Returned /\ ~result.success) => (call.args.data = <<>> \/ DriverRaised)

C10_Witness ==
    /\ Returned
    /\ call.op = "Simple.insert_records"
    /\ KeyMismatch(call.args.data)
    /\ result.success
    /\ \E j \in 1..Len(sent) : \E i \in 1..Len(sent[j].params) :
          /\ ~HasKey(call.args.data[j], keys(call.args.data[1])[i])
          /\ sent[j].params[i] = None
    /\ \E j \in 1..Len(sent) : \E i \in 1..Len(call.args.data[j]) :
          ~HasKey(call.args.data[1], call.args.data[j][i].key)

\* C11 as stated: when the driver raises an exception whose text is m, the
\* message of the failure result is exactly m.
C11_MessageVerbatim ==
    DriverRaised => result.message = raised[1]

\* C11 amended: the message is the fixed text of the operation's except
\* block followed by m, with nothing after it.
C11_MessagePrefixed ==
    DriverRaised =>
        /\ ~result.success
        /\ result.message = <<FailPrefix(call.op)>> \o raised[1]

C11_Witness ==
    /\ DriverRaised
    /\ call.op = "Simple.insert_records"
    /\ result.message = <<"Failed to insert records: ", "duplicate key value">>

\* the operations that compile a condition list into a WHERE clause
WhereOps ==
    {"Simple.query_records", "Crud.query_records", "Simple.update_records",
     "Crud.update_records", "Simple.delete_records", "Crud.delete_records"}

\* the keywords that end the WHERE clause of a statement
ClauseEnd ==
    {Kw(" GROUP BY "), Kw(" HAVING "), Kw(" ORDER BY "), Kw(" LIMIT "), Kw(" OFFSET "),
     Kw(" RETURNING ")}

\* the pieces of a statement after WHERE, up to the next clause
WhereFragment(sql) ==
    IF ~HasKw(sql, " WHERE ") THEN <<>>
    ELSE LET a == CHOOSE j \in 1..Len(sql) : sql[j] = Kw(" WHERE ")
             ends == {j \in (a + 1)..Len(sql) : sql[j] \in ClauseEnd}
             b == IF ends = {} THEN Len(sql) + 1
                  ELSE CHOOSE j \in ends : \A k \in ends : j <= k
         IN  SubSeq(sql, a + 1, b - 1)

\* the connectors of a fragment, in order: a connector is the text between
\* the end of one condition and the column of the next
Connectors(f) ==
    LET IsConnector(j) == j + 2 <= Len(f) /\ f[j].k = "raw" /\ f[j + 1] = Kw(" ")
                          /\ f[j + 2].k = "id"
        at == SelectSeq([j \in 1..Len(f) |-> j], IsConnector)
    IN  [i \in 1..Len(at) |-> f[at[i]].v[1]]

\* a statement of a WhereOps operation has been built from a non-empty list
Compiled == call.op \in WhereOps /\ stmt.sql # <<>> /\ call.args.conditions # <<>>

ScenarioD ==
    << QueryCondition(Age, ">", IntV(25), "AND"),
       QueryCondition(Active, "=", BoolV(TRUE), "AND") >>

\* C12: the connector written between condition i-1 and condition i is the
\* logical_operator of condition i-1 in upper case, so the last condition's
\* logical_operator is never written; the two conditions of Scenario D
\* compile to "age" > %s AND "active" = %s with parameters [25, true].
C12_ConnectorIsPrevious ==
    Compiled =>
        LET cs == call.args.conditions
            f == WhereFragment(stmt.sql)
        IN  /\ Len(Connectors(f)) = Len(cs) - 1
            /\ \A i \in 1..(Len(cs) - 1) :
                  Connectors(f)[i] = upper(cs[i].logical_operator)
            /\ cs = ScenarioD =>
                  /\ f = << QuoteIdent(Age), Kw(" "), Raw(">"), Kw(" "), Ph,
                            Kw(" "), Raw("AND"), Kw(" "),
                            QuoteIdent(Active), Kw(" "), Raw("="), Kw(" "), Ph >>
                  /\ (call.op \in QueryOps /\ call.args.options = Nothing) =>
                        stmt.params = <<IntV(25), BoolV(TRUE)>>

C12_Witness ==
    /\ Compiled
    /\ pc = "await"
    /\ Len(call.args.conditions) = 2
    /\ upper(call.args.conditions[1].logical_operator) = "OR"
    /\ upper(call.args.conditions[2].logical_operator) = "AND"
    /\ Connectors(WhereFragment(stmt.sql)) = <<"OR">>

\* C13: the connector written between condition i-1 and condition i is the
\* logical_operator of condition i, so the first condition's
\* logical_operator is the one never written.
C13_ConnectorIsOwn ==
    Compiled =>
        LET cs == call.args.conditions
            f == WhereFragment(stmt.sql)
        IN  /\ Len(Connectors(f)) = Len(cs) - 1
            /\ \A i \in 1..(Len(cs) - 1) :
                  Connectors(f)[i] = upper(cs[i + 1].logical_operator)

RECURSIVE ExpectedCount(_)
\* one per plain condition, the length of the value sequence per IN / NOT IN
\* condition, zero per NULL check
ExpectedCount(cs) ==
    IF cs = <<>> THEN 0
    ELSE (IF IsNullCheck(Head(cs)) THEN 0
          ELSE IF IsInCheck(Head(cs)) THEN Len(Head(cs).value.items)
          ELSE 1) + ExpectedCount(Tail(cs))

\* the k-th expected parameter: conditions in list order, the members of an
\* IN list in sequence order
ExpectedParam(cs, k) ==
    LET i == CHOOSE j \in 1..Len(cs) :
                 ExpectedCount(SubSeq(cs, 1, j - 1)) < k /\ k <= ExpectedCount(SubSeq(cs, 1, j))
        within == k - ExpectedCount(SubSeq(cs, 1, i - 1))
    IN  IF IsInCheck(cs[i]) THEN cs[i].value.items[within] ELSE cs[i].value

\* the parameters a statement carries before those of its WHERE clause
ParamsBeforeWhere == IF call.op \in ModifyOps /\ "data" \in DOMAIN call.args
                     THEN Len(call.args.data) ELSE 0

PlaceholderCount(f) == Cardinality({j \in 1..Len(f) : f[j] = Ph})

\* C14: for an accepted condition list the WHERE clause carries one
\* parameter per plain condition, the members of the value sequence per
\* IN / NOT IN condition and none per NULL check, in condition order and in
\* sequence order inside an IN list, and as many placeholders as parameters.
C14_ParameterCount ==
    Compiled =>
        LET cs == call.args.conditions
            n == ExpectedCount(cs)
            first == ParamsBeforeWhere
        IN  /\ Len(stmt.params) >= first + n
            /\ \A k \in 1..n : stmt.params[first + k] = ExpectedParam(cs, k)
            /\ PlaceholderCount(WhereFragment(stmt.sql)) = n
            /\ call.op \in {"Simple.delete_records", "Crud.delete_records"} =>
                  Len(stmt.params) = n

C14_Witness ==
    /\ Compiled
    /\ call.op = "Crud.delete_records"
    /\ Len(call.args.conditions) = 2
    /\ IsInCheck(call.args.conditions[1])
    /\ IsNullCheck(call.args.conditions[2])
    /\ stmt.params = <<IntV(1), IntV(2)>>
    /\ PlaceholderCount(WhereFragment(stmt.sql)) = 2

\* a WhereOps operation was called with an empty condition list
NoConditions == call.op \in WhereOps /\ call.args.conditions = <<>>

\* the operation was refused for a reason other than its conditions: no
\* data to update, a bad sort spec or HAVING condition, or as_string raising
RefusedOtherwise ==
    \/ call.op \in ModifyOps /\ "data" \in DOMAIN call.args /\ call.args.data = <<>>
    \/ call.op \in QueryOps
    \/ result.message = <<FailPrefix(call.op), "as_string">>

\* C15: an empty condition list yields no fragment and no parameters, the
\* SELECT, UPDATE and DELETE statements carry no WHERE keyword, and
\* update_records / delete_records send the unconditional statement
\* instead of refusing the call.
C15_EmptyConditionsNoWhere ==
    NoConditions =>
        /\ ~HasKw(stmt.sql, " WHERE ")
        /\ WhereFragment(stmt.sql) = <<>>
        /\ call.op \in {"Simple.delete_records", "Crud.delete_records"} => stmt.params = <<>>
        /\ (call.op \in ModifyOps /\ stmt.sql # <<>>) =>
              /\ Len(stmt.params) = ParamsBeforeWhere
              /\ Verb(stmt.sql) \in {"UPDATE ", "DELETE FROM "}
        /\ (call.op \in ModifyOps /\ Returned /\ sent = <<>>) => RefusedOtherwise
        /\ (Returned /\ sent # <<>>) => sent = <<stmt>>

C15_Witness ==
    /\ NoConditions
    /\ call.op = "Crud.delete_records"
    /\ Returned
    /\ result.success
    /\ Len(sent) = 1
    /\ ~HasKw(sent[1].sql, " WHERE ")
    /\ sent[1].params = <<>>
    /\ modified = Some(2)

\* some sort spec names a direction that is neither ASC nor DESC in any case
BadDirection(options) ==
    /\ options # Nothing
    /\ \E i \in 1..Len(options[1].order_by) :
          /\ options[1].order_by[i].direction # Nothing
          /\ upper(options[1].order_by[i].direction[1]) \notin {"ASC", "DESC"}

\* C16: query_records with a sort direction outside {ASC, DESC} returns a
\* failure result, no statement reaches the driver, and the direction text
\* is never part of a statement.
C16_DirectionValidated ==
    (call.op \in {"Simple.query_records", "Crud.query_records"}
        /\ BadDirection(call.args.options)) =>
        /\ sent = <<>>
        /\ Returned => ~result.success
        /\ \A j \in 1..Len(stmt.sql) :
              stmt.sql[j].k = "raw" => stmt.sql[j].v[1] \in {"ASC", "DESC", "=", ">", "IN", "NOT IN",
                                                           "IS NULL", "AND", "OR"}

\* where a keyword stands in a statement, 0 when it is absent
Position(sql, s) ==
    IF HasKw(sql, s) THEN CHOOSE j \in 1..Len(sql) : sql[j] = Kw(s) ELSE 0

ClauseOrder == <<" WHERE ", " GROUP BY ", " HAVING ", " ORDER BY ", " LIMIT ", " OFFSET ">>

\* the columns listed after GROUP BY, without their quotes
GroupedColumns(sql) ==
    LET a == Position(sql, " GROUP BY ")
        ids == SelectSeq(SubSeq(sql, a + 1, Len(sql)), LAMBDA x : x.k \in {"id", "kw"})
        IsListed(j) == /\ sql[j].k = "id"
                       /\ \A m \in (a + 1)..j : sql[m].k = "id" \/ sql[m] = Kw(", ")
        at == SelectSeq([j \in 1..Len(sql) |-> j], LAMBDA j : j > a /\ IsListed(j))
    IN  [i \in 1..Len(at) |-> SubSeq(sql[at[i]].v, 2, Len(sql[at[i]].v) - 1)]

\* C17: a query whose options carry a group_by list or a having list is
\* sent with the GROUP BY clause listing those columns in order and the
\* HAVING clause, the clauses standing in the order WHERE, GROUP BY,
\* HAVING, ORDER BY, LIMIT, OFFSET, by both query builders.
C17_GroupByHavingEmitted ==
    (call.op \in {"Simple.query_records", "Crud.query_records"}
        /\ call.args.options # Nothing /\ stmt.sql # <<>>) =>
        LET o == call.args.options[1]
        IN  /\ o.group_by # <<>> =>
                  /\ HasKw(stmt.sql, " GROUP BY ")
                  /\ GroupedColumns(stmt.sql) = o.group_by
            /\ o.having # <<>> => HasKw(stmt.sql, " HAVING ")
            /\ \A i, j \in 1..Len(ClauseOrder) :
                  (i < j /\ HasKw(stmt.sql, ClauseOrder[i]) /\ HasKw(stmt.sql, ClauseOrder[j]))
                      => Position(stmt.sql, ClauseOrder[i]) < Position(stmt.sql, ClauseOrder[j])

\* the values of the DataType enum
DataTypes ==
    {"integer", "bigint", "serial", "bigserial", "text", "varchar", "char", "boolean",
     "timestamp", "timestamptz", "date", "time", "json", "jsonb", "uuid", "vector",
     "decimal", "numeric", "real", "double precision"}

\* one column of every type, with and without a dimension
TypeCases ==
    { ColumnDefinition(ColA, data_type, TRUE, None, FALSE, FALSE, Nothing, vector_dimensions) :
        data_type \in DataTypes, vector_dimensions \in {Nothing, Some(3)} }

Dimensionless(column) == column.data_type = "vector" /\ column.vector_dimensions = Nothing

\* the text of a run of pieces: the literal strings and the rendered values
RECURSIVE Flat(_)
Flat(pieces) ==
    IF pieces = <<>> THEN <<>>
    ELSE (IF pieces[1].d = None THEN pieces[1].v ELSE <<pieces[1].d.n>>) \o Flat(Tail(pieces))

\* the type token the documentation gives for a column that has one
TypeToken(column) ==
    CASE column.data_type = "vector" -> <<"vector(", column.vector_dimensions[1], ")">>
      [] column.data_type = "varchar" -> <<"varchar", "(255)">>
      [] column.data_type = "char" -> <<"char", "(255)">>
      [] column.data_type = "decimal" -> <<"decimal", "(10,2)">>
      [] column.data_type = "numeric" -> <<"numeric", "(10,2)">>
      [] OTHER -> <<column.data_type>>

Renderers == {"Crud", "Simple", "Vector"}

CreateTableOps == {"Crud.create_table", "Simple.create_table", "Vector.create_vector_table"}

\* the columns a CREATE TABLE call was given by its caller
GivenColumns ==
    IF call.op = "Vector.create_vector_table" THEN call.args.additional_columns
    ELSE call.args.table_def.columns

\* the vector column create_vector_table adds itself
OwnVectorColumn ==
    IF call.op = "Vector.create_vector_table"
    THEN <<ColumnDefinition(Embedding, "vector", TRUE, None, FALSE, FALSE, Nothing,
                            call.args.vector_dimensions)>>
    ELSE <<>>

\* where the column definitions of a CREATE TABLE statement start: a quoted
\* name followed by one space
ColumnStarts(sql) ==
    SelectSeq([j \in 1..Len(sql) |-> j],
              LAMBDA j : j < Len(sql) /\ sql[j].k = "id" /\ sql[j + 1] = Kw(" "))

\* the definition of the column starting at position j, up to the next
\* separator or the parenthesis that closes the statement
ColumnText(sql, j) ==
    LET IsStop(m) == sql[m] = Kw(", ") \/ m = Len(sql)
        stop == CHOOSE m \in (j + 1)..Len(sql) :
                   IsStop(m) /\ \A q \in (j + 1)..(m - 1) : ~IsStop(q)
    IN  SubSeq(sql, j, stop - 1)

\* the definition of the caller's i-th column in the statement built
GivenColumnText(i) ==
    LET starts == ColumnStarts(stmt.sql)
    IN  ColumnText(stmt.sql, starts[Len(starts) - Len(GivenColumns) + i])

IsPrefix(a, b) == Len(a) <= Len(b) /\ SubSeq(b, 1, Len(a)) = a

\* C18: each of the three renderers gives vector(N), an error for a vector
\* without dimension, varchar(255), char(255), decimal(10,2), numeric(10,2)
\* and the enum value otherwise; the three agree on every column, and the
\* CREATE TABLE statements carry exactly these tokens after the column name.
C18_TypeTokens ==
    call.op \in CreateTableOps =>
        /\ \A column \in TypeCases, self \in Renderers :
              LET r == _format_data_type(self, column)
              IN  /\ Dimensionless(column) => r.err # NoError /\ r.sql = <<>>
                  /\ ~Dimensionless(column) =>
                        r.err = NoError /\ Flat(r.sql) = TypeToken(column)
                  /\ r = _format_data_type("Crud", column)
        /\ LET all == OwnVectorColumn \o GivenColumns
            IN  IF \E i \in 1..Len(all) : Dimensionless(all[i])
                THEN sent = <<>> /\ (Returned => ~result.success)
                ELSE \A i \in 1..Len(GivenColumns) :
                        IsPrefix(<<DQ>> \o GivenColumns[i].name \o <<DQ, " ">>
                                    \o TypeToken(GivenColumns[i]),
                                 Flat(GivenColumnText(i)))

C18_Witness ==
    /\ call.op = "Vector.create_vector_table"
    /\ Returned /\ result.success
    /\ Len(GivenColumns) = 2
    /\ GivenColumns[1].data_type = "varchar"
    /\ GivenColumns[2].data_type = "decimal"
    /\ IsPrefix(<<DQ>> \o Quoted \o <<DQ, " ", "varchar", "(255)">>, Flat(GivenColumnText(1)))
    /\ HasKw(sent[1].sql, "vector(")

ModifierOrder == <<" NOT NULL", " DEFAULT", " PRIMARY KEY", " UNIQUE", " CHECK (">>

\* the modifier a piece opens, 0 when it opens none
ModifierRank(piece) ==
    IF piece \in {Kw(" DEFAULT '"), Kw(" DEFAULT ")} THEN 2
    ELSE IF \E r \in 1..Len(ModifierOrder) : piece = Kw(ModifierOrder[r])
    THEN CHOOSE r \in 1..Len(ModifierOrder) : piece = Kw(ModifierOrder[r])
    ELSE 0

\* the modifiers of a column definition, in the order they are written
ModifierRanks(text) ==
    LET ranks == [j \in 1..Len(text) |-> ModifierRank(text[j])]
    IN  SelectSeq(ranks, LAMBDA r : r > 0)

\* whether a run of pieces holds the run part
Holds(text, part) ==
    \E j \in 0..(Len(text) - Len(part)) : SubSeq(text, j + 1, j + Len(part)) = part

\* the DEFAULT modifier the documentation gives for a column that has one
DefaultText(column) ==
    IF column.default.t = "str" /\ column.default.items[1] \notin special_functions
    THEN <<Kw(" DEFAULT '"), RawValue(column.default), Kw("'")>>
    ELSE <<Kw(" DEFAULT "), RawValue(column.default)>>

\* C19: in every CREATE TABLE statement built by the three builders each
\* column's modifiers stand in the order NOT NULL, DEFAULT, PRIMARY KEY,
\* UNIQUE, CHECK, and a string default is written in single quotes unless
\* it is one of the recognized SQL functions, which is written as it is.
C19_ModifiersRendered ==
    (call.op \in CreateTableOps /\ stmt.sql # <<>>) =>
        \A i \in 1..Len(GivenColumns) :
            LET column == GivenColumns[i]
                text == GivenColumnText(i)
                ranks == ModifierRanks(text)
            IN  /\ \A a, b \in 1..Len(ranks) : a < b => ranks[a] < ranks[b]
                /\ ~column.nullable <=> Holds(text, <<Kw(" NOT NULL")>>)
                /\ column.primary_key <=> Holds(text, <<Kw(" PRIMARY KEY")>>)
                /\ column.check_constraint # Nothing <=> Holds(text, <<Kw(" CHECK (")>>)
                /\ IF column.default = None THEN 2 \notin {ranks[a] : a \in 1..Len(ranks)}
                   ELSE Holds(text, DefaultText(column))

\* C20: every CREATE INDEX statement built by create_index, in either
\* class, names its table after ON as a quoted schema, a dot and the quoted
\* table name, whatever the uniqueness, partial condition and options.
C20_IndexTableQualified ==
    (call.op = "create_index" /\ stmt.sql # <<>>) =>
        LET on == Position(stmt.sql, " ON ")
        IN  /\ on > 0
            /\ on + 3 <= Len(stmt.sql)
            /\ stmt.sql[on + 1].k = "id"
            /\ stmt.sql[on + 2] = Kw(".")
            /\ stmt.sql[on + 3].k = "id"
            /\ Flat(<<stmt.sql[on + 3]>>) = Flat(<<QuoteIdent(call.args.index_def.table_name)>>)

\* an index definition that carries vector options for a method that is
\* neither hnsw nor ivfflat
OptionsOnPlainMethod(index_def) ==
    /\ lower(index_def.index_type) \notin {"hnsw", "ivfflat"}
    /\ index_def.vector_index_options # <<>>

\* C21: create_index with vector options on a method that is not a vector
\* method returns a failure result and sends no statement to the driver.
C21_OptionsOnPlainMethodRejected ==
    (call.op = "create_index" /\ OptionsOnPlainMethod(call.args.index_def)) =>
        /\ sent = <<>>
        /\ Returned => ~result.success

\* the option key = value as it is written inside a WITH clause
OptionText(key, val) == <<Raw(key), Kw(" = "), RawValue(val)>>

\* C22: create_vector_index with method hnsw writes WITH options m and
\* ef_construction, 16 and 64 unless the caller gave the key; with method
\* ivfflat it writes the caller's lists option in a WITH clause and neither
\* HNSW default; without an index name the index is idx_<table>_<column>_<method>.
C22_VectorIndexOptions ==
    (call.op = "Vector.create_vector_index" /\ stmt.sql # <<>>) =>
        LET a == call.args
            given(key, default) ==
                IF HasKey(a.index_options, key) THEN get(a.index_options, key) ELSE default
        IN  /\ a.index_name = Nothing =>
                  Flat(<<stmt.sql[2]>>)
                     = <<DQ, "idx_">> \o a.table_name \o <<"_">> \o Embedding
                          \o <<"_", a.index_type, DQ>>
            /\ lower(a.index_type) = "hnsw" =>
                  /\ HasKw(stmt.sql, " WITH (")
                  /\ Holds(stmt.sql, OptionText("m", given("m", IntV(16))))
                  /\ Holds(stmt.sql, OptionText("ef_construction",
                                                given("ef_construction", IntV(64))))
            /\ (lower(a.index_type) = "ivfflat" /\ HasKey(a.index_options, "lists")) =>
                  /\ HasKw(stmt.sql, " WITH (")
                  /\ Holds(stmt.sql, OptionText("lists", get(a.index_options, "lists")))
                  /\ \A j \in 1..Len(stmt.sql) :
                        stmt.sql[j] \notin {Raw("m"), Raw("ef_construction")}

\* the operator the documentation gives for a distance function; there is
\* none for a function outside the three
DistanceOperator(distance_function) ==
    CASE distance_function = "cosine" -> " <=> "
      [] distance_function = "euclidean" -> " <-> "
      [] distance_function = "inner_product" -> " <#> "
      [] OTHER -> ""

ExprLen == 5

\* the pieces of the distance expression that starts at position j
ExprAt(sql, j) == SubSeq(sql, j, j + ExprLen - 1)

\* C23: a similarity search that reaches the driver uses <=> for cosine,
\* <-> for euclidean and <#> for inner_product, and any other distance
\* function ends in a failure result with nothing sent; the statement
\* orders by that expression, ascending, with only LIMIT after it; it
\* filters on the expression < threshold exactly when a threshold is given,
\* 0 included; the projected, filtered and ordered expressions are the same.
C23_DistanceExpression ==
    (call.op = "Vector.vector_similarity_search" /\ call.args.search_options # Nothing) =>
        LET so == call.args.search_options[1]
            sql == stmt.sql
            ob == Position(sql, " ORDER BY ")
            w == Position(sql, " WHERE ")
            alias == Position(sql, " AS distance")
            ordered == ExprAt(sql, ob + 1)
        IN  /\ so.distance_function \notin {"cosine", "euclidean", "inner_product"} =>
                  /\ sent = <<>>
                  /\ Returned => ~result.success
            /\ sql # <<>> =>
                  /\ ob > 0
                  /\ ordered[1] = QuoteIdent(Embedding)
                  /\ ordered[2] = Kw(DistanceOperator(so.distance_function))
                  /\ ordered[4].d = vector_literal(so.vector)
                  /\ Len(sql) = ob + ExprLen \/ sql[ob + ExprLen + 1] = Kw(" LIMIT ")
                  /\ ~HasKw(sql, " DESC")
                  /\ w > 0 <=> so.threshold # Nothing
                  /\ w > 0 =>
                        /\ w < ob
                        /\ ExprAt(sql, w + 1) = ordered
                        /\ SubSeq(sql, w + ExprLen + 1, w + ExprLen + 2) = <<Kw(" < "), Ph>>
                        /\ stmt.params = <<FloatV(so.threshold[1])>>
                  /\ alias > 0 => ExprAt(sql, alias - ExprLen) = ordered

C23_Witness ==
    /\ call.op = "Vector.vector_similarity_search"
    /\ Returned /\ result.success
    /\ call.args.search_options[1].distance_function = "inner_product"
    /\ call.args.search_options[1].threshold = Some(0)
    /\ HasKw(sent[1].sql, " <#> ")
    /\ HasKw(sent[1].sql, " WHERE ")
    /\ HasKw(sent[1].sql, " AS distance")

\* a similarity search that asks for no distance column and is otherwise valid
SearchWithoutDistance ==
    /\ call.op = "Vector.vector_similarity_search"
    /\ call.args.search_options # Nothing
    /\ ~call.args.search_options[1].include_distance
    /\ call.args.search_options[1].distance_function \in {"cosine", "euclidean", "inner_product"}

\* C24: a similarity search with include_distance false builds a statement
\* that projects id and the additional columns without a distance alias,
\* sends it, and returns success when the driver does not raise.
C24_DistanceColumnOptional ==
    SearchWithoutDistance =>
        /\ stmt.sql # <<>>
        /\ ~HasKw(stmt.sql, " AS distance")
        /\ Returned =>
              /\ Len(sent) = 1
              /\ ~DriverRaised => result.success

\* the call completed just before the current one
Previous == history[Len(history)]

\* C25: against a catalog of schemas and indexes, a second
\* create_schema(name, if_not_exists=True) right after the first returns
\* success as the first did and leaves the catalog as the first left it;
\* drop_index(name, if_exists=True) on an index that does not exist returns
\* success and leaves the catalog unchanged.
C25_Idempotent ==
    (Returned /\ history # <<>>) =>
        /\ (call.op = "create_schema" /\ call.args.if_not_exists /\ ~call.args.composed
               /\ Previous.call.op = "create_schema" /\ Previous.call = call) =>
              /\ Previous.success
              /\ result.success
              /\ catalog = Previous.catalog
        /\ (call.op = "drop_index" /\ call.args.if_exists /\ ~call.args.composed
               /\ call.args.index_name \notin Previous.catalog.indexes) =>
              /\ result.success
              /\ catalog = Previous.catalog

RECURSIVE AllRows(_)
\* the rows of a list of driver answers, in order
AllRows(answers) ==
    IF answers = <<>> THEN <<>>
    ELSE Cells(Head(answers)) \o AllRows(Tail(answers))

\* the result a call gets when it runs alone and the driver gives it the
\* answers recorded in t
AloneResult(t) ==
    IF t.args.data = <<>>
    THEN OperationResult(FALSE, <<"Failed to insert records: ", "No data provided for insert">>,
                         Nothing, <<>>)
    ELSE IF t.raised # Nothing
    THEN OperationResult(FALSE, <<"Failed to insert records: ">> \o t.raised[1], Nothing, <<>>)
    ELSE OperationResult(TRUE,
                         <<"Successfully inserted ", IntStr(Len(t.args.data)),
                           " record(s) into ">> \o Qualified(public, t.args.table_name),
                         Some(Len(t.args.data)),
                         IF t.args.returning_columns # <<>> THEN AllRows(t.answers) ELSE <<>>)

\* C26: however two insert_records calls interleave at their awaits, each
\* call's result is the one it would get alone with the same driver
\* answers, and the rows it returns are rows it inserted itself.
C26_CallsIndependent ==
    \A p \in DOMAIN tasks :
        tasks[p].pc = "done" =>
            /\ tasks[p].result = AloneResult(tasks[p])
            /\ \A j \in 1..Len(tasks[p].result.returned_data) :
                  tasks[p].result.returned_data[j] \in tasks[p].inserted

C26_Witness ==
    /\ DOMAIN tasks = Callers
    /\ \A p \in Callers :
          /\ tasks[p].pc = "done"
          /\ tasks[p].result.success
          /\ Len(tasks[p].args.data) = 2
          /\ tasks[p].args.returning_columns # <<>>
    /\ tasks[1].inserted = {1, 3}
    /\ tasks[2].inserted = {2, 4}

\* the statement carries the clause kw with the value n, written into the
\* text or passed as a parameter
CarriesValue(st, kw, n) ==
    LET j == Position(st.sql, kw)
    IN  /\ j > 0
        /\ j < Len(st.sql)
        /\ \/ st.sql[j + 1] = ValText(IntV(n))
           \/ st.sql[j + 1] = Ph /\ \E m \in 1..Len(st.params) : st.params[m] = IntV(n)

\* the limit and the offset a query or search call was given
GivenLimit ==
    IF call.op = "Vector.vector_similarity_search" THEN call.args.search_options[1].limit
    ELSE call.args.options[1].limit

GivenOffset ==
    IF call.op = "Vector.vector_similarity_search" THEN Nothing
    ELSE call.args.options[1].offset

\* C27: the statement of query_records and of vector_similarity_search
\* carries LIMIT with the given value whenever a limit is given, 0
\* included, and OFFSET likewise; either clause is absent only when the
\* option is null.
C27_LimitAlwaysCarried ==
    (/\ call.op \in {"Simple.query_records", "Crud.query_records",
                      "Vector.vector_similarity_search"}
     /\ stmt.sql # <<>>
     /\ call.op = "Vector.vector_similarity_search" \/ call.args.options # Nothing) =>
        /\ IF GivenLimit # Nothing THEN CarriesValue(stmt, " LIMIT ", GivenLimit[1])
           ELSE ~HasKw(stmt.sql, " LIMIT ")
        /\ IF GivenOffset # Nothing THEN CarriesValue(stmt, " OFFSET ", GivenOffset[1])
           ELSE ~HasKw(stmt.sql, " OFFSET ")

\* C28: for a non-empty record list and a driver that accepts every
\* statement, insert_records of CrudOperations and of SimpleCrudOperations
\* both return success, affected_rows equal to the number of records, and
\* the rows the driver returned as returned_data.
C28_InsertBuildersAgree ==
    (/\ call.op \in {"Crud.insert_records", "Simple.insert_records"}
     /\ call.args.data # <<>>
     /\ Returned
     /\ ~DriverRaised) =>
        /\ result.success
        /\ result.affected_rows = Some(Len(call.args.data))
        /\ result.returned_data = AllRows(got)
        /\ Len(sent) = Len(call.args.data)

RecordTools == {"update_records", "delete_records", "query_records"}

\* the engine operation a record tool delegates to
Delegate(name) ==
    CASE name = "update_records" -> "Crud.update_records"
      [] name = "delete_records" -> "Crud.delete_records"
      [] name = "query_records" -> "Crud.query_records"
      [] OTHER -> "none"

IsErrorResponse(r) == r.parts # <<>> /\ Head(r.parts) = "Error: "

\* C29: a finished update_records, delete_records or query_records tool has
\* called the matching engine operation; it answers with a success response
\* when the engine result has success = true, and with "Error: <message>"
\* only when the engine result has success = false, the message being the
\* result's; so when the driver did not raise and the engine succeeded the
\* response is a success response.
C29_RecordToolsDelegate ==
    (tool.name \in RecordTools /\ tool.pc = "done") =>
        /\ call.op = Delegate(tool.name)
        /\ result.kind # "none"
        /\ result.success => (response.dict.success /\ response.dict.message = result.message)
        /\ IsErrorResponse(response) =>
              (~result.success /\ response.parts = <<"Error: ">> \o result.message)

\* the shutdown tasks that have run their first line
Started == {t \in 1..Len(shutdowns) : shutdowns[t].pc # "scheduled"}

\* the shutdown tasks that ended the process
Exited == {t \in 1..Len(shutdowns) : shutdowns[t].pc = "exited"}

\* what holds of the shutdown tasks in every state
EachShutdown ==
    /\ closes <= 1
    /\ closes = Cardinality({t \in Started : shutdowns[t].close # "none"})
    /\ Started # {} => shutdown_in_progress
    /\ (exit_status # Nothing) = (Exited # {})
    /\ \A t \in Started :
          IF \A u \in Started : t <= u
          THEN /\ shutdowns[t].close # "none"
               /\ t \in Exited => /\ shutdowns[t].close \in {"returned", "raised"}
                                  /\ exit_status = Some(ExitCode(shutdowns[t].sig))
          ELSE /\ shutdowns[t].close = "none"
               /\ t \in Exited
               /\ exit_status = Some(1)

\* C30: the first shutdown to start sets shutdown_in_progress and invokes
\* the pool's close, and when it exits it does so after the close is over
\* and with status 128 + signal, or 0 without a signal; a shutdown that
\* starts with the flag set exits at once with status 1 and never invokes
\* close; close is invoked at most once, and once a shutdown has started
\* the flag is set and stays set in every later state.
C30_ShutdownOnce ==
    /\ []EachShutdown
    /\ [][shutdown_in_progress => shutdown_in_progress']_vars

\* a second signal arrived while the close of the first was pending
C30_Witness ==
    /\ Len(shutdowns) >= 2
    /\ shutdowns[1].sig = Some(SIGTERM)
    /\ shutdowns[1].close = "pending"
    /\ shutdowns[2].pc = "exited"
    /\ exit_status = Some(1)
    /\ closes = 1
====
